---- MODULE Spec2Model ----
(***************************************************************************)
(* A model of the code-context indexing server: the cross-process lock     *)
(* and semaphore (packages/mcp/src/lock.ts), the MCP tool handlers and the *)
(* codebase registry (packages/mcp/src/handlers.ts, logger.ts, sync.ts)    *)
(* and the indexing pipeline (packages/core/src/context.ts).               *)
(*                                                                         *)
(* Each subsystem has its own specification over the shared variables:     *)
(*   LockSpec  - ProcessLockManager, several processes, crashes, a clock   *)
(*   ShutdownSpec - ProcessLockManager, processes ending by clean shutdown *)
(*   SemSpec   - ProcessSemaphore, several processes, crashes, a clock     *)
(*   IndexSpec - index_codebase / clear_index with their background runs  *)
(*   PipeSpec  - one codebase through every outcome of the pipeline        *)
(*   QueueSpec - the insert queue of processChunkBuffersConcurrently       *)
(*   SearchSpec - search_code of ToolHandlers on the indexed codebases     *)
(*   SharedSpec - the shared index state and search_code of NewToolHandlers*)
(*   SyncSpec  - the background sync of several server processes           *)
(*   EmbedSpec - embedBatch and embedBatchWithConcurrency of the client    *)
(*   IgnoreSpec - the ignore patterns of a Context                         *)
(*   SubtreeSpec - index_codebase below a root that is registered          *)
(*   BusySpec  - index_codebase on both paths while runs are going on      *)
(*   ReindexSpec - reindexByChange on the files of one codebase            *)
(*   ReconcileSpec - handleSyncIndex over the indexed codebases            *)
(*   IdleSpec  - the background sync timer and an empty registry           *)
(*   CancelSpec - IndexManager.indexCodebase and its cancellation          *)
(*   ThresholdSpec - semanticSearch and the score threshold                *)
(*   FileSpec  - the shared state file written by two processes            *)
(*   CloudSpec - the cloud synchronisation before a search                 *)
(*   CacheSpec - EmbeddingCache: set, get, persist, load                   *)
(***************************************************************************)
EXTENDS Integers, Sequences, FiniteSets, TLC

\* ------------------------------------------------------------------ bounds
NumProcs == 2          \* processes sharing the lock directory
MaxTime == 2           \* the clock (Date.now()) runs 0..MaxTime
LockTimeout == 1       \* lock timeout in clock ticks (30 min in lock.ts:155)
SlotTimeout == 1       \* slot timeout in clock ticks (2 h in lock.ts:469)
MaxConcurrent == 1     \* the semaphore's slots (constructor argument maxConcurrent)
MaxRuns == 2           \* calls of startBackgroundIndexing alive at the same time
MaxFiles == 2          \* files found by getCodeFiles
MaxChunks == 2         \* chunks the splitter returns for one file
ChunkLimit == 3        \* CHUNK_LIMIT (450000 in context.ts:873)
BatchSize == 2         \* EMBEDDING_BATCH_SIZE (at least 10 in context.ts:872)
MaxApi == 2            \* API_CONCURRENCY (1..10 in context.ts:805-824)
MaxBuffers == 5        \* buffers handed to processChunkBuffersConcurrently
MaxTexts == 3          \* texts handed to one embedBatch call
MaxBatch == 2          \* maxBatchSize / batchSize of the embedding client, 1..MaxBatch
MaxChars == 2          \* maxTokens * 4, the characters kept of one text
MaxPatterns == 2       \* patterns handed to one ignore-pattern operation
MaxRel == 3            \* files a codebase may hold (relative paths 1..MaxRel)
MaxHits == 3           \* chunks of a searched collection, and the largest topK
MaxScore == 4          \* largest score of a hit, in tenths
MaxKeys == 3           \* contents whose embeddings are cached
CacheMaxSize == 2      \* EmbeddingCache.maxSize

Procs == 1..NumProcs
LockNames == {"/r"}           \* the lock of codebase root /r
Slots == 0..(MaxConcurrent - 1)
NoFile == [pid |-> 0, startTime |-> 0]

VARIABLES
    platform,     \* process.platform: "win32" or any other ("posix")
    now,          \* Date.now()
    alive,        \* alive[p]: process p exists (process.kill(p, 0) succeeds)
    lockFile,     \* lockFile[n]: content of <md5(n)>.lock, NoFile when absent
    activeLocks,  \* activeLocks[p]: keys of ProcessLockManager.activeLocks
    pcL,          \* pcL[p]: where p is inside tryAcquireLock / releaseLock
    heldLocks,    \* heldLocks[p]: locks p acquired (returned true), not yet released by p
    attempt,      \* attempt[p]: what p's last tryAcquireLock found and returned
    slotFile,     \* slotFile[s]: content of slot-<s>.lock, NoFile when absent
    pcS,          \* pcS[p]: where p is inside ProcessSemaphore.tryAcquire
    heldSlots,    \* heldSlots[p]: slots p acquired and has not yet released
    info,         \* info[c]: the registry entry of codebase c (SnapshotManager)
    collection,   \* collection[c]: the vector-store collection of c: none, empty, docs
    snapshot,     \* snapshot[c]: the FileSynchronizer snapshot file of c exists
    cloudSyncCache, \* ToolHandlers.cloudSyncCache is set and younger than its TTL
    syncActive,   \* SyncManager.backgroundSyncInterval is set
    run,          \* run[r]: a call of startBackgroundIndexing
    pipe,         \* pipe[r]: the locals of indexCodebase / processFileList of run r
    shared,       \* SharedIndexState: the lists indexes and activeIndexing of the
                  \* state file; the runs and the removal timers of IndexManager
    qry,          \* the last path query or search: its input and its answer
    sync,         \* sync[p]: SyncManager.isSyncing of process p and its reconcile loop
    emb,          \* the embedBatch / embedBatchWithConcurrency call in progress
    ign,          \* Context.ignorePatterns, in the order of the array
    rx,           \* reindexByChange: the files, the synchronizer's hashes, the
                  \* documents of the collection and the call in progress
    im,           \* IndexManager.indexCodebase with its notification: the
                  \* progress object, the cancellation token, the file loop
    found,        \* the last Context.semanticSearch call: its mode and the
                  \* scored hits it returned
    sf,           \* the shared state file, and each process's IndexManager
                  \* maps and SharedStateManager call in progress
    ec            \* EmbeddingCache: the entries of the Map in insertion
                  \* order, and the entries of the persisted file

lockVars == <<lockFile, activeLocks, pcL, heldLocks, attempt>>
semVars == <<slotFile, pcS, heldSlots>>
idxVars == <<info, collection, snapshot, cloudSyncCache, syncActive>>
runVars == <<run, pipe>>
moreVars == <<im, found, sf, ec>>
libVars == <<emb, ign, rx, moreVars>>
extVars == <<shared, qry, sync, libVars>>
appVars == <<idxVars, runVars, extVars>>
vars == <<platform, now, alive, lockFile, activeLocks, pcL, heldLocks, attempt, slotFile, pcS, heldSlots,
          info, collection, snapshot, cloudSyncCache, syncActive, run, pipe,
          shared, qry, sync, emb, ign, rx, im, found, sf, ec>>

IdleL == [at |-> "idle", name |-> "-"]
IdleS == [at |-> "idle", slot |-> 0]
\* No tryAcquireLock made since the last releaseLock. found is what the call
\* saw of the lock file (absent, valid, stale), owner the pid of a file found
\* stale, result what the call returned.
NoAttempt == [name |-> "-", found |-> "-", owner |-> 0, result |-> "-"]

\* ------------------------------------------------- codebases and registry
\* Codebase roots, as the absolute paths path.resolve returns, and the
\* characters of each (the directory /r and its subdirectory /r/s).
Paths == {"/r", "/r/s"}
Sep == "/"
PathChars(p) ==
    CASE p = "/r" -> <<"/", "r">>
      [] p = "/r/s" -> <<"/", "r", "/", "s">>
      [] p = "/r/s/x" -> <<"/", "r", "/", "s", "/", "x">>
      [] p = "/rs" -> <<"/", "r", "s">>
      [] p = "/o" -> <<"/", "o">>

\* The directories a client asks about: the roots, a directory below both,
\* a sibling whose name starts with the name of /r, an unrelated directory.
QueryPaths == Paths \cup {"/r/s/x", "/rs", "/o"}

\* relativePath of the documents a search of the collection of a root may
\* return, and the characters of each.
RelPaths == {"a", "s/b", "sx/c"}
RelChars(f) ==
    CASE f = "a" -> <<"a">>
      [] f = "s/b" -> <<"s", "/", "b">>
      [] f = "sx/c" -> <<"s", "x", "/", "c">>

RunIds == 1..MaxRuns
ServerPid == 1         \* process.pid of the MCP server running the handlers
NoPct == -1            \* no percentage recorded (undefined)

\* A registry entry: status, indexingPercentage / lastAttemptedPercentage,
\* errorMessage.
NotFound == [status |-> "not_found", pct |-> NoPct, err |-> ""]

RunFree == [st |-> "free", path |-> "-", pct |-> NoPct,
            superseded |-> FALSE, lateWrite |-> FALSE]

PipeIdle == [at |-> "idle", n |-> 0, i |-> 0, pf |-> 0, tc |-> 0, lim |-> FALSE,
             cb |-> 0, pend |-> <<>>, conc |-> TRUE, api |-> 1,
             bufs |-> <<>>, gi |-> 0, q |-> <<>>, ret |-> "-",
             persisted |-> 0, insertFailed |-> FALSE, result |-> "-", fly |-> 0]

InitLock ==
    /\ lockFile = [n \in LockNames |-> NoFile]
    /\ activeLocks = [p \in Procs |-> {}]
    /\ pcL = [p \in Procs |-> IdleL]
    /\ heldLocks = [p \in Procs |-> {}]
    /\ attempt = [p \in Procs |-> NoAttempt]

InitSem ==
    /\ slotFile = [s \in Slots |-> NoFile]
    /\ pcS = [p \in Procs |-> IdleS]
    /\ heldSlots = [p \in Procs |-> {}]

InitIndex ==
    /\ info = [c \in Paths |-> NotFound]
    /\ collection = [c \in Paths |-> "none"]
    /\ snapshot = [c \in Paths |-> FALSE]
    /\ cloudSyncCache = FALSE
    /\ syncActive = FALSE

InitRun ==
    /\ run = [r \in RunIds |-> RunFree]
    /\ pipe = [r \in RunIds |-> PipeIdle]

\* No query answered yet.
NoQuery == [op |-> "none", path |-> "-", registered |-> {}, consulted |-> {},
            covered |-> FALSE, root |-> "none", target |-> "-", returned |-> {}]

\* A server process before its start: its SyncManager has isSyncing = false
\* and no loop running; known is the registry it loads at its start, last
\* the outcome of its latest handleSyncIndex call.
SyncIdle == [started |-> FALSE, known |-> {}, isSyncing |-> FALSE, todo |-> <<>>,
             last |-> "-"]

\* DEFAULT_IGNORE_PATTERNS, cut to one pattern.
DEFAULT_IGNORE_PATTERNS == <<"node_modules/**">>

\* No embedding call made yet.
EmbIdle == [op |-> "none", at |-> "idle", texts |-> <<>>, max |-> 1, size |-> 1,
            limit |-> 1, i |-> 0, results |-> <<>>, slots |-> <<>>]

\* The files of one codebase by relative path, and the contents a file may
\* have (0: the file does not exist).
RelFiles == 1..MaxRel
Versions == {1, 2}

\* An empty codebase that was never indexed; no reindexByChange call yet.
\* fs: the content of each file; hashes: FileSynchronizer's record of it;
\* docs: the contents the documents of each relativePath were built from;
\* pc, pct: processedChanges and the last percentage reported.
RxIdle == [at |-> "idle", fs |-> [f \in RelFiles |-> 0],
           hashes |-> [f \in RelFiles |-> 0], docs |-> [f \in RelFiles |-> {}],
           added |-> <<>>, removed |-> <<>>, modified |-> <<>>, todo |-> <<>>,
           pc |-> 0, pct |-> NoPct]

\* No IndexManager.indexCodebase call with a progress notification yet.
\* status, pct: the progress object of the path in activeIndexing ("none":
\* no entry); token: isCancellationRequested; n, i: the files of the run
\* and those processed; fly: a batch is being embedded and inserted;
\* docs: batches persisted; late: batches started after the cancellation.
ImIdle == [at |-> "idle", status |-> "none", pct |-> NoPct, token |-> FALSE,
           conc |-> TRUE, n |-> 0, i |-> 0, fly |-> FALSE, docs |-> 0, late |-> 0]

\* No semanticSearch call with scored hits yet.
NoHits == [op |-> "none", hybrid |-> FALSE, topK |-> 0, returned |-> {}]

\* The state file holds an empty state; no process has read or written it.
\* file.entries: the paths of the last complete content; file.whole: no
\* writeFileSync is between its truncation and its last byte; maps[p]: the
\* paths in indexMetadata / activeIndexing of the IndexManager of p; pc[p],
\* buf[p]: where p is inside a write and the state it writes; seen[p]: what
\* the last loadState of p found.
SfInit == [file |-> [entries |-> {}, whole |-> TRUE],
           maps |-> [p \in Procs |-> {}],
           pc |-> [p \in Procs |-> "idle"],
           buf |-> [p \in Procs |-> {}],
           seen |-> [p \in Procs |-> "none"]]

InitExt ==
    /\ shared = [indexes |-> <<>>, activeIndexing |-> <<>>, running |-> {}, timers |-> {}]
    /\ qry = NoQuery
    /\ sync = [p \in Procs |-> SyncIdle]
    /\ emb = EmbIdle
    /\ ign = DEFAULT_IGNORE_PATTERNS
    /\ rx = RxIdle
    /\ im = ImIdle
    /\ found = NoHits
    /\ sf = SfInit
    /\ ec = [cache |-> <<>>, disk |-> <<>>]

Init ==
    /\ platform \in {"posix", "win32"}
    /\ now = 0
    /\ alive = [p \in Procs |-> TRUE]
    /\ InitLock
    /\ InitSem
    /\ InitIndex
    /\ InitRun
    /\ InitExt

\* ------------------------------------------------------------ environment
\* The clock advances.
Tick ==
    /\ now < MaxTime
    /\ now' = now + 1
    /\ UNCHANGED <<platform, alive, lockVars, semVars, appVars>>

\* Process p dies without running any handler (kill -9, power loss): its
\* files stay behind and process.kill(p, 0) fails from now on.
Crash(p) ==
    /\ alive[p]
    /\ alive' = [alive EXCEPT ![p] = FALSE]
    /\ pcL' = [pcL EXCEPT ![p] = IdleL]
    /\ pcS' = [pcS EXCEPT ![p] = IdleS]
    /\ UNCHANGED <<platform, now, lockFile, activeLocks, heldLocks, attempt, slotFile, heldSlots,
                   appVars>>

\* ----------------------------------------------------- ProcessLockManager
\* isLockStale / isSlotStale on a file content read at this instant: absent
\* or unreadable, older than the timeout, or, except on win32, owner not
\* alive (process.kill(pid, 0) throws).
IsLockStale(file, timeout) ==
    \/ file = NoFile
    \/ now - file.startTime > timeout
    \/ platform # "win32" /\ ~alive[file.pid]

\* tryAcquireLock, first step: fs.existsSync(lockPath).
TryAcquire_Exists(p, n) ==
    /\ alive[p] /\ pcL[p].at = "idle"
    /\ pcL' = [pcL EXCEPT ![p] =
                 [at |-> IF lockFile[n] = NoFile THEN "write" ELSE "stale", name |-> n]]
    /\ attempt' = [attempt EXCEPT ![p] =
                     [NoAttempt EXCEPT !.name = n,
                                       !.found = IF lockFile[n] = NoFile THEN "absent"
                                                 ELSE "-"]]
    /\ UNCHANGED <<platform, now, alive, lockFile, activeLocks, heldLocks, semVars, appVars>>

\* tryAcquireLock: isLockStale(lockPath, timeout); a valid lock returns false
\* (maxRetries = 0, the default).
TryAcquire_Stale(p) ==
    /\ alive[p] /\ pcL[p].at = "stale"
    /\ pcL' = [pcL EXCEPT ![p] =
                 IF IsLockStale(lockFile[pcL[p].name], LockTimeout)
                 THEN [at |-> "unlink", name |-> pcL[p].name]
                 ELSE IdleL]
    /\ attempt' = [attempt EXCEPT ![p] =
                     IF IsLockStale(lockFile[pcL[p].name], LockTimeout)
                     THEN [@ EXCEPT !.found = "stale",
                                    !.owner = lockFile[pcL[p].name].pid]
                     ELSE [@ EXCEPT !.found = "valid", !.result = "false"]]
    /\ UNCHANGED <<platform, now, alive, lockFile, activeLocks, heldLocks, semVars, appVars>>

\* tryAcquireLock: fs.unlinkSync(lockPath) of the lock found stale; ENOENT is
\* caught by the outer catch and returns false.
TryAcquire_Unlink(p) ==
    /\ alive[p] /\ pcL[p].at = "unlink"
    /\ LET n == pcL[p].name IN
         IF lockFile[n] = NoFile
         THEN /\ pcL' = [pcL EXCEPT ![p] = IdleL]
              /\ attempt' = [attempt EXCEPT ![p].result = "false"]
              /\ UNCHANGED lockFile
         ELSE /\ lockFile' = [lockFile EXCEPT ![n] = NoFile]
              /\ pcL' = [pcL EXCEPT ![p] = [at |-> "write", name |-> n]]
              /\ UNCHANGED attempt
    /\ UNCHANGED <<platform, now, alive, activeLocks, heldLocks, semVars, appVars>>

\* tryAcquireLock: fs.writeFileSync(lockPath, ..., {flag: 'wx'}); on success
\* the lock is tracked and true is returned, on EEXIST false is returned.
TryAcquire_Write(p) ==
    /\ alive[p] /\ pcL[p].at = "write"
    /\ LET n == pcL[p].name IN
         IF lockFile[n] = NoFile
         THEN /\ lockFile' = [lockFile EXCEPT ![n] = [pid |-> p, startTime |-> now]]
              /\ activeLocks' = [activeLocks EXCEPT ![p] = @ \cup {n}]
              /\ heldLocks' = [heldLocks EXCEPT ![p] = @ \cup {n}]
              /\ attempt' = [attempt EXCEPT ![p].result = "true"]
         ELSE /\ attempt' = [attempt EXCEPT ![p].result = "false"]
              /\ UNCHANGED <<lockFile, activeLocks, heldLocks>>
    /\ pcL' = [pcL EXCEPT ![p] = IdleL]
    /\ UNCHANGED <<platform, now, alive, semVars, appVars>>

\* releaseLock, first step: existsSync + readFileSync + the pid comparison.
\* From this call on p no longer holds n.
ReleaseLock_Check(p, n) ==
    /\ alive[p] /\ pcL[p].at = "idle"
    /\ heldLocks' = [heldLocks EXCEPT ![p] = @ \ {n}]
    /\ pcL' = [pcL EXCEPT ![p] =
                 IF lockFile[n] # NoFile /\ lockFile[n].pid = p
                 THEN [at |-> "rel", name |-> n]
                 ELSE IdleL]
    /\ attempt' = [attempt EXCEPT ![p] = NoAttempt]
    /\ UNCHANGED <<platform, now, alive, lockFile, activeLocks, semVars, appVars>>

\* releaseLock: fs.unlinkSync(lockPath) and activeLocks.delete; ENOENT is
\* caught and logged before activeLocks.delete runs.
ReleaseLock_Unlink(p) ==
    /\ alive[p] /\ pcL[p].at = "rel"
    /\ LET n == pcL[p].name IN
         IF lockFile[n] = NoFile
         THEN UNCHANGED <<lockFile, activeLocks>>
         ELSE /\ lockFile' = [lockFile EXCEPT ![n] = NoFile]
              /\ activeLocks' = [activeLocks EXCEPT ![p] = @ \ {n}]
    /\ pcL' = [pcL EXCEPT ![p] = IdleL]
    /\ UNCHANGED <<platform, now, alive, heldLocks, attempt, semVars, appVars>>

\* releaseAllLocks as if activeLocks.clear() ran before the loop.
ReleaseAllLocks_ClearFirst(files, active) == files

\* releaseAllLocks: every lock file tracked in activeLocks is unlinked if it
\* exists, whatever pid it records; the result is the lock directory.
ReleaseAllLocks(files, active) ==
    [n \in LockNames |-> IF n \in active THEN NoFile ELSE files[n]]

\* registerCleanupHandlers: 'exit', SIGINT and SIGTERM run releaseAllLocks
\* and the process ends. The handlers run between two tasks of the process,
\* never inside its synchronous tryAcquireLock or releaseLock.
Shutdown(p) ==
    /\ alive[p] /\ pcL[p].at = "idle"
    /\ lockFile' = ReleaseAllLocks(lockFile, activeLocks[p])
    /\ activeLocks' = [activeLocks EXCEPT ![p] = {}]
    /\ alive' = [alive EXCEPT ![p] = FALSE]
    /\ pcL' = [pcL EXCEPT ![p] = [at |-> "exited", name |-> "-"]]
    /\ pcS' = [pcS EXCEPT ![p] = IdleS]
    /\ UNCHANGED <<platform, now, heldLocks, attempt, slotFile, heldSlots, appVars>>

\* registerCleanupHandlers: 'uncaughtException' runs releaseAllLocks and the
\* process goes on.
UncaughtException(p) ==
    /\ alive[p] /\ pcL[p].at = "idle"
    /\ lockFile' = ReleaseAllLocks(lockFile, activeLocks[p])
    /\ activeLocks' = [activeLocks EXCEPT ![p] = {}]
    /\ UNCHANGED <<platform, now, alive, pcL, heldLocks, attempt, semVars, appVars>>

NextLock ==
    \/ Tick
    \/ \E p \in Procs : Crash(p)
    \/ \E p \in Procs, n \in LockNames : TryAcquire_Exists(p, n)
    \/ \E p \in Procs : TryAcquire_Stale(p)
    \/ \E p \in Procs : TryAcquire_Unlink(p)
    \/ \E p \in Procs : TryAcquire_Write(p)
    \/ \E p \in Procs, n \in LockNames : ReleaseLock_Check(p, n)
    \/ \E p \in Procs : ReleaseLock_Unlink(p)
    \/ \E p \in Procs : Shutdown(p)
    \/ \E p \in Procs : UncaughtException(p)

LockSpec == Init /\ [][NextLock]_vars

\* Processes that take and release locks and end by a clean shutdown only.
NextShutdown ==
    \/ Tick
    \/ \E p \in Procs, n \in LockNames : TryAcquire_Exists(p, n)
    \/ \E p \in Procs : TryAcquire_Stale(p)
    \/ \E p \in Procs : TryAcquire_Unlink(p)
    \/ \E p \in Procs : TryAcquire_Write(p)
    \/ \E p \in Procs, n \in LockNames : ReleaseLock_Check(p, n)
    \/ \E p \in Procs : ReleaseLock_Unlink(p)
    \/ \E p \in Procs : Shutdown(p)

ShutdownSpec == Init /\ [][NextShutdown]_vars

\* The alive processes that hold lock n.
LockHolders(n) == {p \in Procs : alive[p] /\ n \in heldLocks[p]}

\* C1: for every lock name, at most one alive process holds the lock at any
\* time, a process holding it from a tryAcquireLock that returned true until
\* its own releaseLock.
C1_AtMostOneHolder == \A n \in LockNames : Cardinality(LockHolders(n)) <= 1

\* ------------------------------------------------------- ProcessSemaphore
\* The slot tryAcquire looks at after slot s: the next one, or none left
\* (the attempt loop ends, maxRetries = 0, and null is returned).
NextSlot(s) ==
    IF s + 1 < MaxConcurrent THEN [at |-> "scan", slot |-> s + 1] ELSE IdleS

\* tryAcquire is called: the scan starts at slot 0.
SemTryAcquire_Start(p) ==
    /\ alive[p] /\ pcS[p].at = "idle"
    /\ pcS' = [pcS EXCEPT ![p] = [at |-> "scan", slot |-> 0]]
    /\ UNCHANGED <<platform, now, alive, lockVars, slotFile, heldSlots, appVars>>

\* tryAcquire: existsSync(slotPath) && !isSlotStale(slotPath, timeout) skips
\* an occupied slot.
SemTryAcquire_Scan(p) ==
    /\ alive[p] /\ pcS[p].at = "scan"
    /\ LET s == pcS[p].slot IN
         pcS' = [pcS EXCEPT ![p] =
                   IF IsLockStale(slotFile[s], SlotTimeout)
                   THEN [at |-> "clean", slot |-> s]
                   ELSE NextSlot(s)]
    /\ UNCHANGED <<platform, now, alive, lockVars, slotFile, heldSlots, appVars>>

\* tryAcquire: "if (fs.existsSync(slotPath))" before the unlink.
SemTryAcquire_Clean(p) ==
    /\ alive[p] /\ pcS[p].at = "clean"
    /\ LET s == pcS[p].slot IN
         pcS' = [pcS EXCEPT ![p] =
                   [at |-> IF slotFile[s] = NoFile THEN "write" ELSE "unlink", slot |-> s]]
    /\ UNCHANGED <<platform, now, alive, lockVars, slotFile, heldSlots, appVars>>

\* tryAcquire: fs.unlinkSync(slotPath); ENOENT is logged and the scan goes on
\* with the next slot.
SemTryAcquire_Unlink(p) ==
    /\ alive[p] /\ pcS[p].at = "unlink"
    /\ LET s == pcS[p].slot IN
         IF slotFile[s] = NoFile
         THEN /\ pcS' = [pcS EXCEPT ![p] = NextSlot(s)]
              /\ UNCHANGED slotFile
         ELSE /\ slotFile' = [slotFile EXCEPT ![s] = NoFile]
              /\ pcS' = [pcS EXCEPT ![p] = [at |-> "write", slot |-> s]]
    /\ UNCHANGED <<platform, now, alive, lockVars, heldSlots, appVars>>

\* tryAcquire: fs.writeFileSync(slotPath, ..., {flag: 'wx'}); success returns
\* the slot id, EEXIST goes on with the next slot.
SemTryAcquire_Write(p) ==
    /\ alive[p] /\ pcS[p].at = "write"
    /\ LET s == pcS[p].slot IN
         IF slotFile[s] = NoFile
         THEN /\ slotFile' = [slotFile EXCEPT ![s] = [pid |-> p, startTime |-> now]]
              /\ heldSlots' = [heldSlots EXCEPT ![p] = @ \cup {s}]
              /\ pcS' = [pcS EXCEPT ![p] = IdleS]
         ELSE /\ pcS' = [pcS EXCEPT ![p] = NextSlot(s)]
              /\ UNCHANGED <<slotFile, heldSlots>>
    /\ UNCHANGED <<platform, now, alive, lockVars, appVars>>

\* release(slotId), first step: existsSync + readFileSync + the pid
\* comparison. From this call on p no longer holds the slot.
SemRelease_Check(p, s) ==
    /\ alive[p] /\ pcS[p].at = "idle"
    /\ heldSlots' = [heldSlots EXCEPT ![p] = @ \ {s}]
    /\ pcS' = [pcS EXCEPT ![p] =
                 IF slotFile[s] # NoFile /\ slotFile[s].pid = p
                 THEN [at |-> "rel", slot |-> s]
                 ELSE IdleS]
    /\ UNCHANGED <<platform, now, alive, lockVars, slotFile, appVars>>

\* release(slotId): fs.unlinkSync(slotPath); ENOENT is caught and logged.
SemRelease_Unlink(p) ==
    /\ alive[p] /\ pcS[p].at = "rel"
    /\ slotFile' = [slotFile EXCEPT ![pcS[p].slot] = NoFile]
    /\ pcS' = [pcS EXCEPT ![p] = IdleS]
    /\ UNCHANGED <<platform, now, alive, lockVars, heldSlots, appVars>>

NextSem ==
    \/ Tick
    \/ \E p \in Procs : Crash(p)
    \/ \E p \in Procs : SemTryAcquire_Start(p)
    \/ \E p \in Procs : SemTryAcquire_Scan(p)
    \/ \E p \in Procs : SemTryAcquire_Clean(p)
    \/ \E p \in Procs : SemTryAcquire_Unlink(p)
    \/ \E p \in Procs : SemTryAcquire_Write(p)
    \/ \E p \in Procs, s \in Slots : SemRelease_Check(p, s)
    \/ \E p \in Procs : SemRelease_Unlink(p)

SemSpec == Init /\ [][NextSem]_vars

\* The alive processes that hold a slot of the semaphore.
SlotHolders == {p \in Procs : alive[p] /\ heldSlots[p] # {}}

\* C2: for a semaphore with N = MaxConcurrent slots, at most N alive
\* processes hold a slot at any time, a process holding a slot from a
\* tryAcquire that returned its id until its own release of that slot.
C2_AtMostNHolders == Cardinality(SlotHolders) <= MaxConcurrent

\* --------------------------------------------------------- SnapshotManager
\* The registry operations the handlers call (set_indexing, set_indexed,
\* set_indexfailed, remove, all_indexed, all_indexing).
IndexedCodebases(inf) == {c \in Paths : inf[c].status = "indexed"}
IndexingCodebases(inf) == {c \in Paths : inf[c].status = "indexing"}

SetCodebaseIndexing(inf, c, pct) ==
    [inf EXCEPT ![c] = [status |-> "indexing", pct |-> pct, err |-> ""]]

SetCodebaseIndexed(inf, c) ==
    [inf EXCEPT ![c] = [status |-> "indexed", pct |-> NoPct, err |-> ""]]

SetCodebaseIndexFailed(inf, c, msg, lastPct) ==
    [inf EXCEPT ![c] = [status |-> "indexfailed", pct |-> lastPct, err |-> msg]]

GetIndexingProgress(inf, c) ==
    IF inf[c].status = "indexing" THEN inf[c].pct ELSE NoPct

RemoveIndexedCodebase(inf, c) ==
    IF inf[c].status = "indexed" THEN [inf EXCEPT ![c] = NotFound] ELSE inf

RemoveCodebaseCompletely(inf, c) == [inf EXCEPT ![c] = NotFound]

\* ------------------------------------------------------------------ utils
StartsWith(s, t) == Len(t) <= Len(s) /\ SubSeq(s, 1, Len(t)) = t

\* isPathIndexedOrNested comparing with the indexed path alone, without the
\* path separator after it.
IsPathIndexedOrNested_NoSep(searchPath, indexedPaths) ==
    \/ searchPath \in indexedPaths
    \/ \E ip \in indexedPaths :
          StartsWith(PathChars(searchPath), PathChars(ip))

\* isPathIndexedOrNested: the path is one of indexedPaths or lies below one.
IsPathIndexedOrNested(searchPath, indexedPaths) ==
    \/ searchPath \in indexedPaths
    \/ \E ip \in indexedPaths :
          \/ StartsWith(PathChars(searchPath), Append(PathChars(ip), Sep))
          \/ PathChars(searchPath) = PathChars(ip)

\* findIndexedParentDirectory (find_containing_index): the longest root r of
\* indexedPaths with r = p or p below r, "none" when there is none.
FindIndexedParentDirectory(p, indexedPaths) ==
    LET cover == {r \in indexedPaths :
                     \/ r = p
                     \/ StartsWith(PathChars(p), Append(PathChars(r), Sep))}
    IN IF cover = {} THEN "none"
       ELSE CHOOSE r \in cover :
                \A r2 \in cover : Len(PathChars(r2)) <= Len(PathChars(r))

\* ----------------------------------------------------------- ToolHandlers
\* syncIndexedCodebasesFromCloud: with a fresh cache nothing happens; with no
\* collection at all every indexed codebase is removed and the cache is not
\* set; otherwise the indexed codebases without a document in the cloud (no
\* collection, or an empty one) are removed and the cache is set.
CloudCodebases == {c \in Paths : collection[c] = "docs"}

SyncIndexedCodebasesFromCloud(inf) ==
    IF cloudSyncCache THEN inf
    ELSE [c \in Paths |->
             IF inf[c].status = "indexed" /\ c \notin CloudCodebases
             THEN NotFound ELSE inf[c]]

CloudSyncCacheAfterSync ==
    cloudSyncCache \/ \E c \in Paths : collection[c] # "none"

\* CLOUD_SYNC_CACHE_TTL elapses.
CloudSyncCacheExpires ==
    /\ cloudSyncCache
    /\ cloudSyncCache' = FALSE
    /\ UNCHANGED <<platform, now, alive, lockVars, semVars, extVars, info, collection, snapshot,
                   syncActive, runVars>>

\* No run is between the return of indexCodebase and the continuation of
\* startBackgroundIndexing (a microtask: nothing else runs in between).
NoMicrotask == \A r \in RunIds : pipe[r].at # "return"

\* A run slot for the next call of startBackgroundIndexing.
IsFreeRun(r) ==
    /\ run[r].st # "running"
    /\ \A r2 \in RunIds : r2 < r => run[r2].st = "running"

\* The calls of startBackgroundIndexing on c that have not finished.
RunningOn(c) == {r \in RunIds : run[r].st = "running" /\ run[r].path = c}

\* handleIndexCodebase(path = c, force, ...); limitOk is the answer of
\* checkCollectionLimit.  The background run is started, not awaited.
HandleIndexCodebase(c, force, limitOk) ==
    LET inf1 == SyncIndexedCodebasesFromCloud(info)
        subtree ==
            /\ ~force
            /\ \/ FindIndexedParentDirectory(c, IndexedCodebases(inf1)) # "none"
               \/ FindIndexedParentDirectory(c, IndexingCodebases(inf1)) # "none"
        rejected ==
            \/ subtree
            \/ c \in IndexingCodebases(inf1)
            \/ ~force /\ c \in IndexedCodebases(inf1)
        inf2 == IF force THEN RemoveIndexedCodebase(inf1, c) ELSE inf1
        cleared == force /\ collection[c] # "none"
        coll2 == IF cleared THEN [collection EXCEPT ![c] = "none"] ELSE collection
        snap2 == IF cleared THEN [snapshot EXCEPT ![c] = FALSE] ELSE snapshot
    IN
    /\ NoMicrotask
    /\ cloudSyncCache' = CloudSyncCacheAfterSync
    /\ IF rejected
       THEN /\ info' = inf1
            /\ UNCHANGED <<collection, snapshot, syncActive, runVars>>
       ELSE IF ~limitOk
       THEN /\ info' = inf2
            /\ collection' = coll2
            /\ snapshot' = snap2
            /\ UNCHANGED <<syncActive, runVars>>
       ELSE \E r \in RunIds :
            /\ IsFreeRun(r)
            /\ info' = SetCodebaseIndexing(inf2, c, 0)
            /\ collection' = coll2
            /\ snapshot' = snap2
            /\ syncActive' = TRUE
            /\ run' = [r2 \in RunIds |->
                         IF r2 = r
                         THEN [RunFree EXCEPT !.st = "running", !.path = c, !.pct = 0]
                         ELSE IF r2 \in RunningOn(c)
                         THEN [run[r2] EXCEPT !.superseded = TRUE]
                         ELSE run[r2]]
            /\ pipe' = [pipe EXCEPT ![r] = [PipeIdle EXCEPT !.at = "start"]]
    /\ UNCHANGED <<platform, now, alive, lockVars, semVars, extVars>>

\* handleClearIndex(path = c): context.clearIndex drops the collection and
\* deletes the snapshot file, then the registry entry is removed.
HandleClearIndex(c) ==
    /\ NoMicrotask
    /\ IndexedCodebases(info) \cup IndexingCodebases(info) # {}
    /\ \/ IsPathIndexedOrNested(c, IndexedCodebases(info))
       \/ IsPathIndexedOrNested(c, IndexingCodebases(info))
    /\ collection' = [collection EXCEPT ![c] = "none"]
    /\ snapshot' = [snapshot EXCEPT ![c] = FALSE]
    /\ info' = RemoveCodebaseCompletely(info, c)
    /\ cloudSyncCache' = FALSE
    /\ syncActive' =
          (syncActive /\ IndexedCodebases(info') \cup IndexingCodebases(info') # {})
    /\ run' = [r \in RunIds |->
                 IF r \in RunningOn(c) THEN [run[r] EXCEPT !.superseded = TRUE]
                 ELSE run[r]]
    /\ UNCHANGED <<platform, now, alive, lockVars, semVars, extVars, pipe>>

\* ------------------------------------------------ path resolution, search
\* The arrays getIndexedCodebases() may return for the set S of indexed
\* codebases: every order of its elements.
Orderings(S) ==
    {f \in [1..Cardinality(S) -> S] : \A i, j \in DOMAIN f : i # j => f[i] # f[j]}

\* The elements of a list.
Range(list) == {list[i] : i \in DOMAIN list}

\* findIndexedParentPath: the first codebase of the list that is the search
\* path or lies above it, "none" (null) when there is none.
FindIndexedParentPath(searchPath, indexedCodebases) ==
    LET hit == {i \in DOMAIN indexedCodebases :
                   IsPathIndexedOrNested(searchPath, {indexedCodebases[i]})}
    IN IF hit = {} THEN "none"
       ELSE indexedCodebases[CHOOSE i \in hit : \A j \in hit : i <= j]

\* context.semanticSearch(target, ...): nothing without a collection that
\* holds documents, otherwise the hits the store answers with (relativePath).
SemanticSearch(target, hits) ==
    IF target \in Paths /\ collection[target] = "docs" THEN hits ELSE {}

\* ToolHandlers.handleSearchCode(path = p): cloud sync, the indexed /
\* indexing test, the resolution of the indexed directory, the search of its
\* collection; every hit of the search is put into the response.  order is
\* the array getIndexedCodebases() returns.
HandleSearchCode(p, order, hits) ==
    LET inf1 == SyncIndexedCodebasesFromCloud(info)
        indexedCodebases == IndexedCodebases(inf1)
        indexingCodebases == IndexingCodebases(inf1)
        isIndexed == IsPathIndexedOrNested(p, indexedCodebases)
        isIndexing == IsPathIndexedOrNested(p, indexingCodebases)
        actualIndexedPath == FindIndexedParentPath(p, order)
        searchTargetPath == IF actualIndexedPath # "none" THEN actualIndexedPath ELSE p
    IN
    /\ NoMicrotask
    /\ order \in Orderings(indexedCodebases)
    /\ info' = inf1
    /\ cloudSyncCache' = CloudSyncCacheAfterSync
    /\ qry' = IF ~isIndexed /\ ~isIndexing
              THEN [NoQuery EXCEPT !.op = "search", !.path = p,
                                   !.registered = indexedCodebases \cup indexingCodebases,
                                   !.consulted = indexedCodebases]
              ELSE [op |-> "search", path |-> p,
                    registered |-> indexedCodebases \cup indexingCodebases,
                    consulted |-> indexedCodebases,
                    covered |-> TRUE, root |-> actualIndexedPath,
                    target |-> searchTargetPath,
                    returned |-> SemanticSearch(searchTargetPath, hits)]
    /\ UNCHANGED <<platform, now, alive, lockVars, semVars, collection, snapshot, syncActive,
                   runVars, shared, sync, libVars>>

\* ------------------------------------- SharedStateManager, NewToolHandlers
\* checkIndexingStatus, the loop over a list: the first entry that is the
\* target or lies above it.
FirstParent(target, list) ==
    LET hit == {i \in DOMAIN list :
                   \/ StartsWith(PathChars(target), Append(PathChars(list[i]), Sep))
                   \/ PathChars(target) = PathChars(list[i])}
    IN IF hit = {} THEN "none"
       ELSE list[CHOOSE i \in hit : \A j \in hit : i <= j]

\* checkIndexingStatus: an exact match among the indexed, then among the
\* indexing codebases, then the first indexed parent, then the first
\* indexing parent.
CheckIndexingStatus(targetPath, indexed, indexing) ==
    IF targetPath \in Range(indexed)
    THEN [isIndexed |-> TRUE, isIndexing |-> FALSE, path |-> targetPath]
    ELSE IF targetPath \in Range(indexing)
    THEN [isIndexed |-> FALSE, isIndexing |-> TRUE, path |-> targetPath]
    ELSE IF FirstParent(targetPath, indexed) # "none"
    THEN [isIndexed |-> TRUE, isIndexing |-> FALSE,
          path |-> FirstParent(targetPath, indexed)]
    ELSE IF FirstParent(targetPath, indexing) # "none"
    THEN [isIndexed |-> FALSE, isIndexing |-> TRUE,
          path |-> FirstParent(targetPath, indexing)]
    ELSE [isIndexed |-> FALSE, isIndexing |-> FALSE, path |-> "none"]

\* path.join(searchPath, result.relativePath), resolved.
JoinChars(root, rel) == PathChars(root) \o <<Sep>> \o RelChars(rel)

\* The filter of NewToolHandlers.handleSearchCode: searching the index of a
\* parent directory keeps the hits below the target directory only.
FilterResults(searchPath, absolutePath, searchResults) ==
    IF searchPath # absolutePath
    THEN {h \in searchResults :
             \/ StartsWith(JoinChars(searchPath, h), Append(PathChars(absolutePath), Sep))
             \/ JoinChars(searchPath, h) = PathChars(absolutePath)}
    ELSE searchResults

\* NewToolHandlers.handleSearchCode(path = p): checkIndexingStatus on the
\* shared state, the search of indexedPath (the path itself when only an
\* indexing codebase matched), then the filter.
NewHandleSearchCode(p, hits) ==
    LET st == CheckIndexingStatus(p, shared.indexes, shared.activeIndexing)
        searchPath == IF st.isIndexed THEN st.path ELSE p
        registered == Range(shared.indexes) \cup Range(shared.activeIndexing)
    IN
    /\ qry' = IF ~st.isIndexed /\ ~st.isIndexing
              THEN [NoQuery EXCEPT !.op = "newsearch", !.path = p,
                                   !.registered = registered,
                                   !.consulted = registered]
              ELSE [op |-> "newsearch", path |-> p, registered |-> registered,
                    consulted |-> registered,
                    covered |-> TRUE, root |-> st.path, target |-> searchPath,
                    returned |-> FilterResults(searchPath, p,
                                               SemanticSearch(searchPath, hits))]
    /\ UNCHANGED <<platform, now, alive, lockVars, semVars, idxVars, runVars, shared, sync, libVars>>

\* ------------------------------------------ IndexManager (the shared state)
\* The list without c.
Without(list, c) == SelectSeq(list, LAMBDA x : x # c)

\* Map.set(c, ..) on the values of a Map: a key already present keeps its
\* place, a new key comes last.
MapSet(list, c) == IF c \in Range(list) THEN list ELSE Append(list, c)

\* IndexManager.indexCodebase(c, force), up to the first await: rejected when
\* c is being indexed, or is indexed and force is not set; otherwise c joins
\* activeIndexing and the shared state is written.
IndexManager_IndexCodebase(c, force) ==
    /\ c \notin Range(shared.activeIndexing)
    /\ force \/ c \notin Range(shared.indexes)
    /\ shared' = [shared EXCEPT !.activeIndexing = Append(@, c),
                                !.running = @ \cup {c}]
    /\ UNCHANGED <<platform, now, alive, lockVars, semVars, idxVars, runVars, qry, sync, libVars>>

\* IndexManager.indexCodebase, the indexing is completed: the collection
\* holds the documents, c is set in indexMetadata, updateProgress sets the
\* completed progress in activeIndexing and writes the shared state; the
\* removal from activeIndexing is left to a timer of two seconds.
IndexManager_Completed(c) ==
    /\ c \in shared.running
    /\ collection' = [collection EXCEPT ![c] = "docs"]
    /\ snapshot' = [snapshot EXCEPT ![c] = TRUE]
    /\ shared' = [indexes |-> MapSet(shared.indexes, c),
                  activeIndexing |-> MapSet(shared.activeIndexing, c),
                  running |-> shared.running \ {c},
                  timers |-> shared.timers \cup {c}]
    /\ UNCHANGED <<platform, now, alive, lockVars, semVars, info, cloudSyncCache, syncActive,
                   runVars, qry, sync, libVars>>

\* IndexManager.indexCodebase, the timer set at completion fires: c leaves
\* activeIndexing and the shared state is written.
IndexManager_Remove(c) ==
    /\ c \in shared.timers
    /\ shared' = [shared EXCEPT !.activeIndexing = Without(@, c),
                                !.timers = @ \ {c}]
    /\ UNCHANGED <<platform, now, alive, lockVars, semVars, idxVars, runVars, qry, sync, libVars>>

\* IndexManager.clearIndex(c): the progress is marked cancelled and leaves
\* activeIndexing, the collection and the snapshot are removed, c leaves
\* indexMetadata; a run in progress and a pending timer go on.
IndexManager_ClearIndex(c) ==
    /\ collection' = [collection EXCEPT ![c] = "none"]
    /\ snapshot' = [snapshot EXCEPT ![c] = FALSE]
    /\ shared' = [shared EXCEPT !.indexes = Without(@, c),
                                !.activeIndexing = Without(@, c)]
    /\ UNCHANGED <<platform, now, alive, lockVars, semVars, info, cloudSyncCache, syncActive,
                   runVars, qry, sync, libVars>>

\* ------------------------------------------------------------ SyncManager
\* Another server process starts (index.ts): loadCodebaseSnapshot reads the
\* registry file, startBackgroundSync sets the timers.
Sync_ServerStart(p) ==
    /\ p # ServerPid /\ alive[p] /\ ~sync[p].started
    /\ sync' = [sync EXCEPT ![p] = [SyncIdle EXCEPT !.started = TRUE,
                                                    !.known = IndexedCodebases(info)]]
    /\ UNCHANGED <<platform, now, alive, lockVars, semVars, idxVars, runVars, shared, qry, libVars>>

\* The timers of process p are set: syncIntervalId of the server with the
\* handlers, the start of any other server.
TimersSet(p) == IF p = ServerPid THEN syncActive ELSE sync[p].started

\* snapshotManager.getIndexedCodebases() in process p.
SyncIndexedCodebases(p) ==
    IF p = ServerPid THEN IndexedCodebases(info) ELSE sync[p].known

\* handleSyncIndex in process p, from the timer to its first await: nothing
\* indexed returns, isSyncing set returns, otherwise isSyncing is set and the
\* loop starts on the codebases that exist on disk (present), in the order
\* of the array; with none of them on disk the loop ends at once.
HandleSyncIndex(p, order, present) ==
    /\ alive[p] /\ TimersSet(p) /\ NoMicrotask
    /\ order \in Orderings(SyncIndexedCodebases(p))
    /\ sync' = [sync EXCEPT ![p] =
                  IF SyncIndexedCodebases(p) = {} THEN [@ EXCEPT !.last = "empty"]
                  ELSE IF @.isSyncing THEN [@ EXCEPT !.last = "skipped"]
                  ELSE LET todo == SelectSeq(order, LAMBDA c : c \in present)
                       IN [@ EXCEPT !.isSyncing = (todo # <<>>), !.todo = todo,
                                    !.last = "started"]]
    /\ UNCHANGED <<platform, now, alive, lockVars, semVars, idxVars, runVars, shared, qry, libVars>>

\* Sync_Reindex with an error of reindexByChange leaving the loop.
Sync_Reindex_Abort(p, outcome) ==
    /\ alive[p] /\ sync[p].isSyncing /\ sync[p].todo # <<>> /\ NoMicrotask
    /\ snapshot' = IF outcome = "milvus"
                   THEN [snapshot EXCEPT ![Head(sync[p].todo)] = FALSE]
                   ELSE snapshot
    /\ sync' = [sync EXCEPT ![p] =
                  IF outcome = "ok"
                  THEN [@ EXCEPT !.todo = Tail(@),
                                 !.isSyncing = (Tail(sync[p].todo) # <<>>), !.last = "-"]
                  ELSE [@ EXCEPT !.todo = <<>>, !.isSyncing = FALSE, !.last = "-"]]
    /\ UNCHANGED <<platform, now, alive, lockVars, semVars, info, collection, cloudSyncCache,
                   syncActive, runVars, shared, qry, libVars>>

\* handleSyncIndex: context.reindexByChange of the next codebase returned
\* or threw; "Failed to query Milvus" deletes the snapshot of the codebase.
\* After the last codebase the finally block resets isSyncing.
Sync_Reindex(p, outcome) ==
    /\ alive[p] /\ sync[p].isSyncing /\ sync[p].todo # <<>> /\ NoMicrotask
    /\ snapshot' = IF outcome = "milvus"
                   THEN [snapshot EXCEPT ![Head(sync[p].todo)] = FALSE]
                   ELSE snapshot
    /\ sync' = [sync EXCEPT ![p] = [@ EXCEPT !.todo = Tail(@),
                                             !.isSyncing = (Tail(sync[p].todo) # <<>>),
                                             !.last = "-"]]
    /\ UNCHANGED <<platform, now, alive, lockVars, semVars, info, collection, cloudSyncCache,
                   syncActive, runVars, shared, qry, libVars>>

\* ------------------------------------------- startBackgroundIndexing (run)
\* Each action below is one piece of a run between two awaits: it takes the
\* result of the awaited call and runs to the next await.
Min(a, b) == IF a <= b THEN a ELSE b
Max(a, b) == IF a >= b THEN a ELSE b

\* ProgressPct computed from the files that remain instead of the files done.
ProgressPct_Remaining(fileIndex, totalFiles) ==
    (31 * totalFiles + 170 * (totalFiles - fileIndex)) \div (2 * totalFiles)

\* Math.round(15 + (fileIndex / totalFiles) * 85)
ProgressPct(fileIndex, totalFiles) ==
    (31 * totalFiles + 170 * fileIndex) \div (2 * totalFiles)

\* Run r has been superseded by clear_index or a new index_codebase and
\* writes nevertheless.
Late(r) == run[r].lateWrite \/ run[r].superseded

\* The progress callback handed to indexCodebase.
ProgressCallback(r, pct) ==
    /\ info' = SetCodebaseIndexing(info, run[r].path, pct)
    /\ run' = [run EXCEPT ![r].pct = pct, ![r].lateWrite = Late(r)]

\* The catch block of startBackgroundIndexing; the run is over.
IndexingFailed(r, msg) ==
    /\ info' = SetCodebaseIndexFailed(info, run[r].path, msg,
                                      GetIndexingProgress(info, run[r].path))
    /\ run' = [run EXCEPT ![r] = [RunFree EXCEPT !.lateWrite = Late(r)]]
    /\ pipe' = [pipe EXCEPT ![r] = PipeIdle]

\* prepareCollection(path, forceReindex = false): creates the collection
\* unless it exists.
PrepareCollection(c) ==
    IF collection[c] = "none" THEN [collection EXCEPT ![c] = "empty"] ELSE collection

\* getLoadedIgnorePatterns, synchronizer.initialize, getPreparedCollection
\* (ok: the vector store answers), then indexCodebase up to its first await.
Run_Init(r, ok) ==
    /\ run[r].st = "running" /\ pipe[r].at = "start" /\ NoMicrotask
    /\ snapshot' = [snapshot EXCEPT ![run[r].path] = TRUE]
    /\ IF ok
       THEN /\ collection' = PrepareCollection(run[r].path)
            /\ ProgressCallback(r, 0)
            /\ pipe' = [pipe EXCEPT ![r].at = "load"]
       ELSE /\ IndexingFailed(r, "prepare collection failed")
            /\ UNCHANGED collection
    /\ UNCHANGED <<platform, now, alive, lockVars, semVars, extVars, cloudSyncCache, syncActive>>

\* indexCodebase: ignore patterns loaded; callback 5; prepareCollection.
Run_Load(r) ==
    /\ run[r].st = "running" /\ pipe[r].at = "load" /\ NoMicrotask
    /\ ProgressCallback(r, 5)
    /\ pipe' = [pipe EXCEPT ![r].at = "prepare"]
    /\ UNCHANGED <<platform, now, alive, lockVars, semVars, extVars, collection, snapshot,
                   cloudSyncCache, syncActive>>

\* indexCodebase: prepareCollection answered; callback 10; getCodeFiles.
Run_Prepare(r, ok) ==
    /\ run[r].st = "running" /\ pipe[r].at = "prepare" /\ NoMicrotask
    /\ IF ok
       THEN /\ collection' = PrepareCollection(run[r].path)
            /\ ProgressCallback(r, 10)
            /\ pipe' = [pipe EXCEPT ![r].at = "scan"]
       ELSE /\ IndexingFailed(r, "prepare collection failed")
            /\ UNCHANGED collection
    /\ UNCHANGED <<platform, now, alive, lockVars, semVars, extVars, snapshot, cloudSyncCache, syncActive>>

\* indexCodebase: getCodeFiles found n files.  None: callback 100 and
\* return.  Otherwise processFileList starts, concurrent or serial, with
\* API_CONCURRENCY = api.
Run_Scan(r, n, conc, api) ==
    /\ run[r].st = "running" /\ pipe[r].at = "scan" /\ NoMicrotask
    /\ IF n = 0
       THEN /\ ProgressCallback(r, 100)
            /\ pipe' = [pipe EXCEPT ![r].at = "return", ![r].result = "completed"]
       ELSE /\ pipe' = [pipe EXCEPT ![r].at = "files", ![r].n = n,
                                    ![r].conc = conc, ![r].api = api]
            /\ UNCHANGED <<info, run>>
    /\ UNCHANGED <<platform, now, alive, lockVars, semVars, extVars, collection, snapshot,
                   cloudSyncCache, syncActive>>

\* --------------------------------------------- processFileListConcurrent
\* Math.round(EMBEDDING_BATCH_SIZE * 0.5) under memory pressure above 0.8.
AdaptiveBatchSize(mem) == IF mem >= 1 THEN (BatchSize + 1) \div 2 ELSE BatchSize

ProcessingThreshold(mem, api) == IF mem >= 1 THEN Max(1, api \div 2) ELSE api

\* ChunksAdded without the break at CHUNK_LIMIT.
ChunksAdded_NoBreak(k, tc) == k

\* The chunk loop of one file of k chunks when totalChunks = tc: it pushes
\* and counts chunk after chunk and breaks at CHUNK_LIMIT.
ChunksAdded(k, tc) == Min(k, ChunkLimit - tc)

\* SkipFile with the error passed on to the caller of indexCodebase.
SkipFile_Rethrown(r) == IndexingFailed(r, "read failed")

\* readFile or split threw for the file at hand: the error is caught and
\* logged, the file is neither counted nor reported, the loop goes on with
\* the next file.
SkipFile(r) ==
    /\ pipe' = [pipe EXCEPT ![r].i = @ + 1]
    /\ UNCHANGED <<info, run>>

\* The result of one file: unreadable files are only noted; otherwise the
\* k chunks are buffered up to CHUNK_LIMIT, the buffer is moved to
\* pendingBuffers when large enough (mem: memory pressure 0 = up to 0.8,
\* 1 = up to 0.9, 2 = above), and the pending buffers are processed when
\* there are enough of them; else the file is counted and reported.
Run_File(r, readable, k, mem) ==
    /\ run[r].st = "running" /\ pipe[r].at = "files" /\ NoMicrotask
    /\ pipe[r].conc /\ pipe[r].i < pipe[r].n /\ ~pipe[r].lim
    /\ LET P == pipe[r]
           added == ChunksAdded(k, P.tc)
           tc1 == P.tc + added
           lim1 == k > 0 /\ tc1 >= ChunkLimit
           cb1 == P.cb + added
           push == cb1 >= AdaptiveBatchSize(mem) \/ mem = 2
           pend1 == IF push THEN Append(P.pend, cb1) ELSE P.pend
           cb2 == IF push THEN 0 ELSE cb1
           process == push /\ Len(pend1) >= ProcessingThreshold(mem, P.api)
           take == Min(P.api, Len(pend1))
       IN
       IF ~readable
       THEN SkipFile(r)
       ELSE IF process
       THEN /\ pipe' = [pipe EXCEPT ![r] =
                    [P EXCEPT !.tc = tc1, !.lim = lim1, !.cb = cb2,
                              !.pend = SubSeq(pend1, take + 1, Len(pend1)),
                              !.bufs = SubSeq(pend1, 1, take), !.gi = 0,
                              !.q = <<>>, !.ret = "file", !.at = "group"]]
            /\ UNCHANGED <<info, run>>
       ELSE /\ pipe' = [pipe EXCEPT ![r] =
                    [P EXCEPT !.tc = tc1, !.lim = lim1, !.cb = cb2, !.pend = pend1,
                              !.pf = P.pf + 1, !.i = P.i + 1]]
            /\ ProgressCallback(r, ProgressPct(P.pf + 1, P.n))
    /\ UNCHANGED <<platform, now, alive, lockVars, semVars, extVars, collection, snapshot,
                   cloudSyncCache, syncActive>>

\* The pending buffers of the file have been processed: processedFiles++ and
\* onFileProcessed.
Run_FileDone(r) ==
    /\ run[r].st = "running" /\ pipe[r].at = "fileDone" /\ NoMicrotask
    /\ pipe' = [pipe EXCEPT ![r].pf = @ + 1, ![r].i = @ + 1, ![r].at = "files"]
    /\ ProgressCallback(r, ProgressPct(pipe[r].pf + 1, pipe[r].n))
    /\ UNCHANGED <<platform, now, alive, lockVars, semVars, extVars, collection, snapshot,
                   cloudSyncCache, syncActive>>

\* After the loop: the rest of chunkBuffer joins pendingBuffers and all of
\* them are processed; a failure of that call is caught and logged.
Run_Drain(r) ==
    /\ run[r].st = "running" /\ pipe[r].at = "files" /\ NoMicrotask
    /\ pipe[r].conc /\ (pipe[r].i = pipe[r].n \/ pipe[r].lim)
    /\ LET P == pipe[r]
           pend1 == IF P.cb > 0 THEN Append(P.pend, P.cb) ELSE P.pend
       IN pipe' = [pipe EXCEPT ![r] =
              IF Len(pend1) > 0
              THEN [P EXCEPT !.pend = pend1, !.bufs = pend1, !.gi = 0, !.q = <<>>,
                             !.ret = "drain", !.at = "group"]
              ELSE [P EXCEPT !.at = "complete"]]
    /\ UNCHANGED <<platform, now, alive, lockVars, semVars, extVars, idxVars, run>>

\* ---------------------------------------- processChunkBuffersConcurrently
RECURSIVE SumOver(_, _)
SumOver(f, S) ==
    IF S = {} THEN 0
    ELSE LET j == CHOOSE x \in S : TRUE IN f[j] + SumOver(f, S \ {j})

\* Where the caller of processChunkBuffersConcurrently continues when the
\* call returns.
QueueReturns(r, P1) ==
    CASE P1.ret = "file" ->
           /\ pipe' = [pipe EXCEPT ![r] = [P1 EXCEPT !.at = "fileDone"]]
           /\ UNCHANGED <<info, run>>
      [] P1.ret = "drain" ->
           /\ pipe' = [pipe EXCEPT ![r] = [P1 EXCEPT !.at = "complete"]]
           /\ UNCHANGED <<info, run>>
      [] P1.ret = "call" ->
           /\ pipe' = [pipe EXCEPT ![r] = PipeIdle]
           /\ run' = [run EXCEPT ![r] = RunFree]
           /\ UNCHANGED info

\* Where an error thrown by processChunkBuffersConcurrently ends: inside the
\* file loop it is re-thrown up to the catch of startBackgroundIndexing, in
\* the final drain it is caught and logged.
QueueThrows(r, P1, msg) ==
    CASE P1.ret = "file" -> IndexingFailed(r, msg)
      [] P1.ret = "drain" ->
           /\ pipe' = [pipe EXCEPT ![r] = [P1 EXCEPT !.at = "complete"]]
           /\ UNCHANGED <<info, run>>
      [] P1.ret = "call" ->
           /\ pipe' = [pipe EXCEPT ![r] = PipeIdle]
           /\ run' = [run EXCEPT ![r] = RunFree]
           /\ UNCHANGED info

\* QueueLimit with the factor off by one.
QueueLimit_Triple(api) == api * 3

\* Queue length that makes the producer wait for the oldest inserts.
QueueLimit(api) == api * 2

\* One group of at most apiConcurrency buffers: the embeddings are generated
\* (embedOk), then one insert per buffer is started and queued; oks are the
\* positions in the group whose insert the vector store accepts.  Promise.all
\* rejects with the first embedding that fails: left of the other embeddings
\* of the group have not settled by then (fly).
Queue_Group(r, embedOk, oks) ==
    /\ run[r].st = "running" /\ pipe[r].at = "group" /\ NoMicrotask
    /\ LET P == pipe[r]
           c == run[r].path
           hi == Min(P.gi + P.api, Len(P.bufs))
           group == (P.gi + 1)..hi
           good == {j \in group : (j - P.gi) \in oks /\ collection[c] # "none"}
           q1 == P.q \o [j \in 1..(hi - P.gi) |-> (P.gi + j) \in good]
           P1 == [P EXCEPT !.q = q1, !.gi = hi,
                           !.persisted = @ + SumOver(P.bufs, good),
                           !.insertFailed = @ \/ good # group,
                           !.at = IF Len(q1) >= QueueLimit(P.api) THEN "trim"
                                  ELSE IF hi < Len(P.bufs) THEN "group"
                                  ELSE "settle"]
       IN
       IF ~embedOk
       THEN /\ \E left \in 0..(hi - P.gi - 1) :
                  QueueThrows(r, [P EXCEPT !.fly = left], "embedding failed")
            /\ UNCHANGED collection
       ELSE /\ pipe' = [pipe EXCEPT ![r] = P1]
            /\ collection' = IF \E j \in good : P.bufs[j] > 0
                             THEN [collection EXCEPT ![c] = "docs"] ELSE collection
            /\ run' = [run EXCEPT ![r].lateWrite = Late(r)]
            /\ UNCHANGED info
    /\ UNCHANGED <<platform, now, alive, lockVars, semVars, extVars, snapshot, cloudSyncCache, syncActive>>

\* An embedding that Promise.all no longer waits for settles; its result is
\* discarded.
Embed_Settle(r) ==
    /\ run[r].st = "running" /\ pipe[r].fly > 0 /\ NoMicrotask
    /\ pipe' = [pipe EXCEPT ![r].fly = @ - 1]
    /\ UNCHANGED <<platform, now, alive, lockVars, semVars, extVars, idxVars, run>>

\* The queue has reached its limit: the oldest apiConcurrency inserts are
\* awaited (Promise.allSettled); their failures are only logged.
Queue_Trim(r) ==
    /\ run[r].st = "running" /\ pipe[r].at = "trim" /\ NoMicrotask
    /\ LET P == pipe[r] IN
       pipe' = [pipe EXCEPT ![r] =
                  [P EXCEPT !.q = SubSeq(P.q, P.api + 1, Len(P.q)),
                            !.at = IF P.gi < Len(P.bufs) THEN "group" ELSE "settle"]]
    /\ UNCHANGED <<platform, now, alive, lockVars, semVars, extVars, idxVars, run>>

\* The remaining inserts are awaited; a failed one makes the call throw.
Queue_Settle(r) ==
    /\ run[r].st = "running" /\ pipe[r].at = "settle" /\ NoMicrotask
    /\ LET P == pipe[r]
           P1 == [P EXCEPT !.q = <<>>]
       IN IF \E j \in 1..Len(P.q) : ~P.q[j]
          THEN QueueThrows(r, P1, "insert failed")
          ELSE QueueReturns(r, P1)
    /\ UNCHANGED <<platform, now, alive, lockVars, semVars, extVars, collection, snapshot,
                   cloudSyncCache, syncActive>>

\* indexCodebase: flushInsertQueue, callback 100, return.
Run_Complete(r) ==
    /\ run[r].st = "running" /\ pipe[r].at = "complete" /\ NoMicrotask
    /\ ProgressCallback(r, 100)
    /\ pipe' = [pipe EXCEPT ![r].at = "return",
                             ![r].result = IF pipe[r].lim THEN "limit_reached"
                                           ELSE "completed"]
    /\ UNCHANGED <<platform, now, alive, lockVars, semVars, extVars, collection, snapshot,
                   cloudSyncCache, syncActive>>

\* startBackgroundIndexing after indexCodebase returned: setCodebaseIndexed;
\* the run is over.
Run_Return(r) ==
    /\ run[r].st = "running" /\ pipe[r].at = "return"
    /\ info' = SetCodebaseIndexed(info, run[r].path)
    /\ run' = [run EXCEPT ![r] = [RunFree EXCEPT !.lateWrite = Late(r)]]
    /\ pipe' = [pipe EXCEPT ![r] = PipeIdle]
    /\ UNCHANGED <<platform, now, alive, lockVars, semVars, extVars, collection, snapshot,
                   cloudSyncCache, syncActive>>

\* ------------------------------------------------- processFileListSerial
\* The chunk loop of one file: every chunk is buffered and counted; a full
\* buffer (or memory above the limit) is embedded and inserted at once, a
\* failure of that (ok = FALSE, or no collection) is logged and the buffer
\* dropped; the loop ends at CHUNK_LIMIT.
RECURSIVE SerialChunks(_, _, _, _)
SerialChunks(st, k, ok, memHigh) ==
    IF k = 0 \/ st.lim THEN st
    ELSE LET cb1 == st.cb + 1
             tc1 == st.tc + 1
             flush == cb1 >= BatchSize \/ memHigh
         IN SerialChunks(
                [cb |-> IF flush THEN 0 ELSE cb1,
                 tc |-> tc1,
                 persisted |-> IF flush /\ ok THEN st.persisted + cb1 ELSE st.persisted,
                 failed |-> st.failed \/ (flush /\ ~ok),
                 lim |-> tc1 >= ChunkLimit],
                k - 1, ok, memHigh)

Run_FileSerial(r, readable, k, ok, memHigh) ==
    /\ run[r].st = "running" /\ pipe[r].at = "files" /\ NoMicrotask
    /\ ~pipe[r].conc /\ pipe[r].i < pipe[r].n /\ ~pipe[r].lim
    /\ LET P == pipe[r]
           c == run[r].path
           st == SerialChunks([cb |-> P.cb, tc |-> P.tc, persisted |-> P.persisted,
                               failed |-> P.insertFailed, lim |-> FALSE],
                              k, ok /\ collection[c] # "none", memHigh)
       IN
       IF ~readable
       THEN SkipFile(r) /\ UNCHANGED collection
       ELSE /\ pipe' = [pipe EXCEPT ![r] =
                    [P EXCEPT !.cb = st.cb, !.tc = st.tc, !.lim = st.lim,
                              !.persisted = st.persisted, !.insertFailed = st.failed,
                              !.pf = P.pf + 1, !.i = P.i + 1]]
            /\ collection' = IF st.persisted > P.persisted
                             THEN [collection EXCEPT ![c] = "docs"] ELSE collection
            /\ ProgressCallback(r, ProgressPct(P.i + 1, P.n))
    /\ UNCHANGED <<platform, now, alive, lockVars, semVars, extVars, snapshot, cloudSyncCache, syncActive>>

\* After the loop the rest of the buffer is embedded and inserted; a
\* failure is logged.
Run_DrainSerial(r, ok) ==
    /\ run[r].st = "running" /\ pipe[r].at = "files" /\ NoMicrotask
    /\ ~pipe[r].conc /\ (pipe[r].i = pipe[r].n \/ pipe[r].lim)
    /\ LET P == pipe[r]
           c == run[r].path
           good == ok /\ collection[c] # "none"
       IN
       IF P.cb = 0
       THEN /\ pipe' = [pipe EXCEPT ![r].at = "complete"]
            /\ UNCHANGED <<collection, run>>
       ELSE /\ pipe' = [pipe EXCEPT ![r] =
                    [P EXCEPT !.persisted = IF good THEN @ + P.cb ELSE @,
                              !.insertFailed = @ \/ ~good,
                              !.at = "complete"]]
            /\ collection' = IF good THEN [collection EXCEPT ![c] = "docs"]
                             ELSE collection
            /\ run' = [run EXCEPT ![r].lateWrite = Late(r)]
    /\ UNCHANGED <<platform, now, alive, lockVars, semVars, extVars, info, snapshot, cloudSyncCache,
                   syncActive>>

\* ---------------------------------------------------------------- IndexSpec
\* The tool handlers of one server with their background runs: the client
\* indexes /r and clears /r or /r/s; /r holds one file of one chunk and is
\* indexed in concurrent mode with API_CONCURRENCY = 1.
MemLevels == {0, 1, 2}

NextIndex ==
    \/ \E force \in BOOLEAN, limitOk \in BOOLEAN :
          HandleIndexCodebase("/r", force, limitOk)
    \/ \E c \in Paths : HandleClearIndex(c)
    \/ CloudSyncCacheExpires
    \/ \E r \in RunIds, ok \in BOOLEAN : Run_Init(r, ok)
    \/ \E r \in RunIds : Run_Load(r)
    \/ \E r \in RunIds, ok \in BOOLEAN : Run_Prepare(r, ok)
    \/ \E r \in RunIds : Run_Scan(r, 1, TRUE, 1)
    \/ \E r \in RunIds, mem \in {0, 2} : Run_File(r, TRUE, 1, mem)
    \/ \E r \in RunIds : Run_FileDone(r)
    \/ \E r \in RunIds : Run_Drain(r)
    \/ \E r \in RunIds, embedOk \in BOOLEAN, oks \in SUBSET {1} :
          Queue_Group(r, embedOk, oks)
    \/ \E r \in RunIds : Queue_Settle(r)
    \/ \E r \in RunIds : Run_Complete(r)
    \/ \E r \in RunIds : Run_Return(r)

IndexSpec == Init /\ [][NextIndex]_vars

\* C3: the status of a codebase changes only along the transitions of the
\* lifecycle table; a codebase becomes indexed or indexfailed only from
\* indexing.
C3_StatusTransitions ==
    [][\A c \in Paths :
          (info'[c].status # info[c].status
             /\ info'[c].status \in {"indexed", "indexfailed"})
          => info[c].status = "indexing"]_vars

\* C4: no two runs on the same codebase overlap, and a run whose codebase
\* was cleared or re-indexed while it was running writes nothing afterwards.
C4_RunningTaskCancelled ==
    /\ \A r \in RunIds : ~run[r].lateWrite
    /\ \A r1, r2 \in RunIds :
          (r1 # r2 /\ run[r1].st = "running" /\ run[r2].st = "running")
          => run[r1].path # run[r2].path

\* C5: while a run on a codebase root is in progress the server holds the
\* lock of that root.
C5_LockHeldDuringRun ==
    \A r \in RunIds :
        run[r].st = "running" => run[r].path \in heldLocks[ServerPid]

\* ----------------------------------------------------------------- PipeSpec
\* One codebase indexed again and again (first time, retry, forced), with
\* every outcome of the file system, the splitter, the embedding provider
\* and the vector store.
NextPipe ==
    \/ \E force \in BOOLEAN : HandleIndexCodebase("/r", force, TRUE)
    \/ \E r \in RunIds, ok \in BOOLEAN : Run_Init(r, ok)
    \/ \E r \in RunIds : Run_Load(r)
    \/ \E r \in RunIds, ok \in BOOLEAN : Run_Prepare(r, ok)
    \/ \E r \in RunIds, n \in 0..MaxFiles, conc \in BOOLEAN, api \in 1..MaxApi :
          Run_Scan(r, n, conc, api)
    \/ \E r \in RunIds, readable \in BOOLEAN, k \in 0..MaxChunks, mem \in MemLevels :
          Run_File(r, readable, k, mem)
    \/ \E r \in RunIds : Run_FileDone(r)
    \/ \E r \in RunIds : Run_Drain(r)
    \/ \E r \in RunIds, readable \in BOOLEAN, k \in 0..MaxChunks, ok \in BOOLEAN,
          memHigh \in BOOLEAN : Run_FileSerial(r, readable, k, ok, memHigh)
    \/ \E r \in RunIds, ok \in BOOLEAN : Run_DrainSerial(r, ok)
    \/ \E r \in RunIds, embedOk \in BOOLEAN, oks \in SUBSET (1..MaxApi) :
          Queue_Group(r, embedOk, oks)
    \/ \E r \in RunIds : Embed_Settle(r)
    \/ \E r \in RunIds : Queue_Settle(r)
    \/ \E r \in RunIds : Run_Complete(r)
    \/ \E r \in RunIds : Run_Return(r)

PipeSpec == Init /\ [][NextPipe]_vars

\* ---------------------------------------------------------------- QueueSpec
\* processChunkBuffersConcurrently called with nb buffers of one chunk each
\* of codebase /r and apiConcurrency = a; the caller awaits each call.
Queue_Call(r, nb, a) ==
    /\ IsFreeRun(r)
    /\ \A r2 \in RunIds : run[r2].st # "running"
    /\ run' = [run EXCEPT ![r] = [RunFree EXCEPT !.st = "running", !.path = "/r"]]
    /\ pipe' = [pipe EXCEPT ![r] =
                  [PipeIdle EXCEPT !.at = "group", !.bufs = [j \in 1..nb |-> 1],
                                   !.api = a, !.ret = "call"]]
    /\ UNCHANGED <<platform, now, alive, lockVars, semVars, extVars, idxVars>>

\* getPreparedCollection(c), the public wrapper of prepareCollection.
GetPreparedCollection(c) ==
    /\ collection[c] = "none"
    /\ collection' = PrepareCollection(c)
    /\ UNCHANGED <<platform, now, alive, lockVars, semVars, extVars, info, snapshot, cloudSyncCache,
                   syncActive, runVars>>

NextQueue ==
    \/ \E r \in RunIds, nb \in 1..MaxBuffers, a \in 1..MaxApi : Queue_Call(r, nb, a)
    \/ GetPreparedCollection("/r")
    \/ \E r \in RunIds, embedOk \in BOOLEAN, oks \in SUBSET (1..MaxApi) :
          Queue_Group(r, embedOk, oks)
    \/ \E r \in RunIds : Queue_Trim(r)
    \/ \E r \in RunIds : Queue_Settle(r)

QueueSpec == Init /\ [][NextQueue]_vars

\* --------------------------------------------------------------- SearchSpec
\* One server: the client indexes /r and /r/s (each holds one file of one
\* chunk, indexed in serial mode without failures) and clears them, one
\* request after the run of the other has ended, and searches the
\* directories of QueryPaths at any time.
NoRun == \A r \in RunIds : run[r].st # "running"

NextSearch ==
    \/ \E c \in Paths, force \in BOOLEAN :
          NoRun /\ HandleIndexCodebase(c, force, TRUE)
    \/ \E c \in Paths : NoRun /\ HandleClearIndex(c)
    \/ \E r \in RunIds : Run_Init(r, TRUE)
    \/ \E r \in RunIds : Run_Load(r)
    \/ \E r \in RunIds : Run_Prepare(r, TRUE)
    \/ \E r \in RunIds : Run_Scan(r, 1, FALSE, 1)
    \/ \E r \in RunIds : Run_FileSerial(r, TRUE, 1, TRUE, FALSE)
    \/ \E r \in RunIds : Run_DrainSerial(r, TRUE)
    \/ \E r \in RunIds : Run_Complete(r)
    \/ \E r \in RunIds : Run_Return(r)
    \/ \E p \in QueryPaths, order \in Orderings(IndexedCodebases(info)),
          hits \in SUBSET RelPaths : HandleSearchCode(p, order, hits)

SearchSpec == Init /\ [][NextSearch]_vars

\* --------------------------------------------------------------- SharedSpec
\* The editor extension (IndexManager) indexes and clears /r and /r/s and
\* writes the shared state; the server answers searches from it.
NextShared ==
    \/ \E c \in Paths, force \in BOOLEAN : IndexManager_IndexCodebase(c, force)
    \/ \E c \in Paths : IndexManager_Completed(c)
    \/ \E c \in Paths : IndexManager_Remove(c)
    \/ \E c \in Paths : IndexManager_ClearIndex(c)
    \/ \E p \in QueryPaths, hits \in SUBSET RelPaths : NewHandleSearchCode(p, hits)

SharedSpec == Init /\ [][NextShared]_vars

\* ----------------------------------------------------------------- SyncSpec
\* Several server processes on one registry file: the first indexes and
\* clears /r, all of them run the background sync.
NextSync ==
    \/ \E force \in BOOLEAN : NoRun /\ HandleIndexCodebase("/r", force, TRUE)
    \/ NoRun /\ HandleClearIndex("/r")
    \/ \E r \in RunIds : Run_Init(r, TRUE)
    \/ \E r \in RunIds : Run_Load(r)
    \/ \E r \in RunIds : Run_Prepare(r, TRUE)
    \/ \E r \in RunIds : Run_Scan(r, 1, FALSE, 1)
    \/ \E r \in RunIds : Run_FileSerial(r, TRUE, 1, TRUE, FALSE)
    \/ \E r \in RunIds : Run_DrainSerial(r, TRUE)
    \/ \E r \in RunIds : Run_Complete(r)
    \/ \E r \in RunIds : Run_Return(r)
    \/ \E p \in Procs : Sync_ServerStart(p)
    \/ \E p \in Procs, present \in SUBSET Paths :
          \E order \in Orderings(SyncIndexedCodebases(p)) :
             HandleSyncIndex(p, order, present)
    \/ \E p \in Procs, outcome \in {"ok", "error", "milvus"} : Sync_Reindex(p, outcome)

SyncSpec == Init /\ [][NextSync]_vars

\* ------------------------------------------------------------------ claims
\* The step of run r is its last one and it is a failure (the catch block of
\* startBackgroundIndexing ran).
RunFails(r) ==
    /\ run[r].st = "running" /\ run'[r].st = "free"
    /\ pipe[r].at # "return" /\ pipe[r].ret # "call"

\* C6: within one run the percentages delivered to the progress callback
\* never decrease, and a run that returns successfully reported 100 last.
C6_ProgressMonotone ==
    [][\A r \in RunIds :
          /\ (run[r].st = "running" /\ run'[r].st = "running")
                => run'[r].pct >= run[r].pct
          /\ pipe'[r].at = "return" => run'[r].pct = 100]_vars

\* a run over MaxFiles files, one of them unreadable, has returned
C6_Witness ==
    \E r \in RunIds :
        /\ pipe[r].at = "return" /\ pipe[r].n = MaxFiles
        /\ pipe[r].pf = MaxFiles - 1 /\ run[r].pct = 100

C8_InsertFailureAborts ==
    [][\A r \in RunIds :
          (run[r].st = "running" /\ pipe[r].insertFailed /\ pipe[r].ret # "call"
             /\ run'[r].st = "free")
          => info'[run[r].path].status = "indexfailed"]_vars

\* C9: the inserts queued and not yet awaited never number more than twice
\* api_concurrency, and no further group is queued while they do.
C9_InsertQueueBound ==
    \A r \in RunIds :
        /\ Len(pipe[r].q) <= 2 * pipe[r].api
        /\ pipe[r].at = "group" => Len(pipe[r].q) < 2 * pipe[r].api

\* the queue is full and the producer waits
C9_Witness ==
    \E r \in RunIds :
        /\ pipe[r].at = "trim" /\ pipe[r].api = MaxApi
        /\ Len(pipe[r].q) = 2 * pipe[r].api /\ pipe[r].gi < Len(pipe[r].bufs)

\* C10: when a run fails the registry entry of its codebase becomes
\* indexfailed with an error message and the last percentage the run
\* reported.
C10_FailureRecorded ==
    [][\A r \in RunIds :
          RunFails(r) =>
             /\ info'[run[r].path].status = "indexfailed"
             /\ info'[run[r].path].err # ""
             /\ info'[run[r].path].pct = run[r].pct]_vars

\* r covers p: they are the same path, or p goes on after r with the path
\* separator.
CoveredBy(p, r) ==
    LET pc == PathChars(p)
        rc == PathChars(r)
    IN \/ p = r
       \/ /\ Len(pc) > Len(rc)
          /\ \A i \in 1..Len(rc) : pc[i] = rc[i]
          /\ pc[Len(rc) + 1] = Sep

\* C11: a query path is treated as covered by the registry iff some
\* registered root is the path or the path starts with the root followed by
\* the path separator; the unrelated directory /o and the sibling /rs of the
\* root /r are not covered.
C11_Containment ==
    qry.op # "none" =>
        /\ qry.covered <=> \E r \in qry.registered : CoveredBy(qry.path, r)
        /\ qry.path \in {"/rs", "/o"} => ~qry.covered

\* The sibling /rs is asked about while /r is registered, and is not covered.
C11_Witness ==
    /\ qry.op = "search" /\ qry.path = "/rs"
    /\ "/r" \in qry.registered /\ ~qry.covered

\* The longest root of roots that covers p, "none" when none does.
LongestCover(p, roots) ==
    LET cover == {r \in roots : CoveredBy(p, r)}
    IN IF cover = {} THEN "none"
       ELSE CHOOSE r \in cover : \A r2 \in cover : Len(PathChars(r2)) <= Len(PathChars(r))

\* C12: path resolution returns the longest of the roots it consults that
\* contains the query path, and none when no such root contains it.
C12_LongestRootWins ==
    qry.op # "none" => qry.root = LongestCover(qry.path, qry.consulted)

\* C13: a search on a path strictly below the indexed root it resolves to
\* returns only hits whose path (the root joined with relativePath) lies
\* under the queried path.
C13_HitsUnderQueriedPath ==
    (qry.op # "none" /\ qry.covered /\ qry.root \in Paths /\ qry.root # qry.path) =>
        \A h \in qry.returned :
            LET hc == JoinChars(qry.target, h)
                pc == PathChars(qry.path)
            IN \/ hc = pc
               \/ /\ Len(hc) > Len(pc)
                  /\ \A i \in 1..Len(pc) : hc[i] = pc[i]
                  /\ hc[Len(pc) + 1] = Sep

\* C14: when checkCollectionLimit answers false, index_codebase, whatever
\* the force flag, drops and creates no collection, leaves the registry as
\* the cloud sync at its start left it, and starts no run.
C14_LimitLeavesStateAlone ==
    [][\A c \in Paths, force \in BOOLEAN :
          HandleIndexCodebase(c, force, FALSE) =>
              /\ collection' = collection
              /\ snapshot' = snapshot
              /\ info' = SyncIndexedCodebasesFromCloud(info)
              /\ run' = run /\ pipe' = pipe]_vars

\* C15: after clear_index(c) reported success, the codebase covering c (the
\* longest registered root that is c or lies above it) has no collection, no
\* snapshot and no registry entry.
C15_ClearRemovesCodebase ==
    [][\A c \in Paths :
          HandleClearIndex(c) =>
              LET root == LongestCover(c, IndexedCodebases(info) \cup IndexingCodebases(info))
              IN /\ collection'[root] = "none"
                 /\ snapshot'[root] = FALSE
                 /\ info'[root].status = "not_found"]_vars

\* The processes with a reconcile run in progress.
Reconciling == {p \in Procs : sync[p].isSyncing}

\* C16: at most one reconcile run is active among all processes at any
\* time, and a handleSyncIndex call made while the run of its process is
\* active returns without starting on any codebase.
C16_OneReconcileRun ==
    [][/\ Cardinality(Reconciling') <= 1
       /\ \A p \in Procs, present \in SUBSET Paths :
            \A order \in Orderings(SyncIndexedCodebases(p)) :
               (sync[p].isSyncing /\ HandleSyncIndex(p, order, present)) =>
                   /\ sync'[p].todo = sync[p].todo
                   /\ sync'[p].isSyncing]_vars

\* The second half of C16 alone: a call during the run of its own process
\* starts nothing.
SyncTickSkipped ==
    [][\A p \in Procs, present \in SUBSET Paths :
         \A order \in Orderings(SyncIndexedCodebases(p)) :
            (sync[p].isSyncing /\ HandleSyncIndex(p, order, present)) =>
                /\ sync'[p].todo = sync[p].todo
                /\ sync'[p].isSyncing
                /\ sync'[p].last \in {"skipped", "empty"}]_vars

\* A lock file that is stale now: its owner is not alive, or it is older
\* than the timeout.
StaleNow(file) ==
    file # NoFile /\ (~alive[file.pid] \/ now - file.startTime > LockTimeout)

\* The steps of p's tryAcquireLock on a lock file for which stale(file)
\* holds: the staleness test leads to the removal, the removal of the file
\* to the creation, and the creation on the empty place returns true with
\* the file owned by p.
ReclaimSteps(p, stale(_)) ==
    LET n == pcL[p].name IN
    /\ (pcL[p].at = "stale" /\ stale(lockFile[n]) /\ TryAcquire_Stale(p))
          => pcL'[p].at = "unlink"
    /\ (pcL[p].at = "unlink" /\ lockFile[n] # NoFile /\ TryAcquire_Unlink(p))
          => (lockFile'[n] = NoFile /\ pcL'[p].at = "write")
    /\ (pcL[p].at = "write" /\ lockFile[n] = NoFile /\ TryAcquire_Write(p))
          => /\ attempt'[p].result = "true"
             /\ lockFile'[n].pid = p
             /\ n \in heldLocks'[p]

\* C17: when the lock file left by a process that died without releasing is
\* stale (its owner is no longer alive, or it is older than the timeout),
\* the tryAcquireLock of another process goes through and returns true,
\* and the lock file is then owned by the caller.
C17_StaleLockReclaimed == [][\A p \in Procs : ReclaimSteps(p, StaleNow)]_vars

\* A lock file older than the timeout, or, where the owner is probed, one
\* whose owner is not alive.
StaleWhereProbed(file) ==
    /\ file # NoFile
    /\ \/ now - file.startTime > LockTimeout
       \/ platform # "win32" /\ ~alive[file.pid]

\* C17 without the dead owner on win32: such a file is reclaimed.
ProbedStaleLockReclaimed == [][\A p \in Procs : ReclaimSteps(p, StaleWhereProbed)]_vars

\* Process q took over the lock that process p acquired and never released
\* before it died: q's call found p's file stale and returned true.
DeadOwnerLockReclaimed ==
    \E p, q \in Procs, n \in LockNames :
       /\ p # q /\ ~alive[p] /\ pcL[p].at # "exited" /\ n \in heldLocks[p]
       /\ attempt[q] = [name |-> n, found |-> "stale", owner |-> p, result |-> "true"]
       /\ alive[q] /\ lockFile[n] # NoFile /\ lockFile[n].pid = q /\ n \in heldLocks[q]

\* The steps of p's tryAcquireLock on a lock file that exists and is not
\* stale: the staleness test returns false, and no step removes or replaces
\* the file.
ValidSteps(p) ==
    LET n == pcL[p].name
        valid == lockFile[n] # NoFile /\ ~StaleNow(lockFile[n])
    IN /\ (pcL[p].at = "stale" /\ valid /\ TryAcquire_Stale(p))
             => (attempt'[p].result = "false" /\ pcL'[p].at = "idle")
       /\ (pcL[p].at \in {"stale", "unlink", "write"} /\ valid
             /\ (TryAcquire_Stale(p) \/ TryAcquire_Unlink(p) \/ TryAcquire_Write(p)))
             => (lockFile'[n] = lockFile[n] /\ attempt'[p].result # "true")

\* C18: one tryAcquireLock call returns true if and only if the lock file
\* is absent or stale (owner not alive, or older than the timeout) when the
\* call looks at it; on a file that exists and is not stale the call returns
\* false and leaves the file as it is.
C18_AttemptDecision ==
    [][\A p \in Procs :
         /\ ReclaimSteps(p, StaleNow)
         /\ ValidSteps(p)
         /\ attempt'[p].result = "true" => attempt'[p].found \in {"absent", "stale"}]_vars

\* The second half of C18 alone: a lock file that exists and is not stale is
\* left as it is by every step of another call.
ValidLockLeftAlone == [][\A p \in Procs : ValidSteps(p)]_vars

\* A step of releaseLock or of ProcessSemaphore.release by process p.
ReleaseStep(p) ==
    \/ \E n \in LockNames : ReleaseLock_Check(p, n)
    \/ ReleaseLock_Unlink(p)
    \/ \E s \in Slots : SemRelease_Check(p, s)
    \/ SemRelease_Unlink(p)

\* C19: a release of a lock or of a semaphore slot removes the file only
\* when the pid recorded in the file is the pid of the calling process; on
\* the file of any other process it leaves the file in place.
C19_ReleaseOnlyOwnFile ==
    [][\A p \in Procs : ReleaseStep(p) =>
          /\ \A n \in LockNames :
                lockFile'[n] # lockFile[n] => lockFile[n].pid = p
          /\ \A s \in Slots :
                slotFile'[s] # slotFile[s] => slotFile[s].pid = p]_vars

\* C19 for the first step of a release alone: the comparison of the pid
\* read from the file sends only the owner on to the removal.
ReleaseCheckedByPid ==
    [][\A p \in Procs, n \in LockNames :
         (ReleaseLock_Check(p, n) /\ pcL'[p].at = "rel") => lockFile[n].pid = p]_vars

\* The same for releaseAllLocks: the cleanup of process p removes only files
\* that record the pid of p.
CleanupOnlyOwnFile ==
    [][\A p \in Procs : (Shutdown(p) \/ UncaughtException(p)) =>
          \A n \in LockNames :
             lockFile'[n] # lockFile[n] => lockFile[n].pid = p]_vars

\* C20: after the exit, SIGINT or SIGTERM handler of a process has run, no
\* lock file records the pid of that process: every lock it held is
\* released.
C20_ShutdownReleasesLocks ==
    \A p \in Procs :
       pcL[p].at = "exited" =>
          \A n \in LockNames : lockFile[n] = NoFile \/ lockFile[n].pid # p

\* Process p acquired lock n, never called releaseLock, and shut down before
\* the lock could be taken for stale: the file is gone.
C20_Witness ==
    \E p \in Procs, n \in LockNames :
       /\ pcL[p].at = "exited" /\ n \in heldLocks[p] /\ attempt[p].result = "true"
       /\ now = 0 /\ lockFile[n] = NoFile
       /\ \A q \in Procs \ {p} : attempt[q].result # "true"

\* --------------------------------------------------------------- Embedding
\* The texts of the model, as sequences of characters: the empty text, a
\* short one, and one longer than MaxChars.
Texts == {<<>>, <<"a">>, <<"b", "b", "b">>}
TextBatches == UNION {[1..n -> Texts] : n \in 0..MaxTexts}

\* preprocessText: the empty string becomes a space, a text longer than
\* maxTokens * 4 characters is cut.
PreprocessText(text) ==
    IF text = <<>> THEN <<" ">>
    ELSE IF Len(text) > MaxChars THEN SubSeq(text, 1, MaxChars)
    ELSE text

PreprocessTexts(texts) == [k \in 1..Len(texts) |-> PreprocessText(texts[k])]

\* Array.prototype.slice with the end taken inclusive.
Slice_Inclusive(array, from, to) ==
    SubSeq(array, from + 1, IF to + 1 < Len(array) THEN to + 1 ELSE Len(array))

\* Array.prototype.slice(from, to) for 0 <= from <= to, indices from 0.
Slice(array, from, to) ==
    SubSeq(array, from + 1, IF to < Len(array) THEN to ELSE Len(array))

\* chunkArray: the slices of chunkSize elements, in order.
RECURSIVE ChunkFrom(_, _, _)
ChunkFrom(array, chunkSize, from) ==
    IF from >= Len(array) THEN <<>>
    ELSE <<Slice(array, from, from + chunkSize)>> \o
         ChunkFrom(array, chunkSize, from + chunkSize)

ChunkArray(array, chunkSize) == ChunkFrom(array, chunkSize, 0)

\* embedBatchInternal on a successful request: the texts are preprocessed
\* and response.data is mapped item by item; the vector the provider
\* computes for a text is written as the text it was given.
EmbedBatchInternal(texts) ==
    [k \in 1..Len(texts) |-> [vector |-> PreprocessText(texts[k])]]

\* embedBatch as a whole when no request fails: the split into sub-batches
\* of maxBatchSize texts and the concatenation of their results.
RECURSIVE EmbedBatchFrom(_, _, _)
EmbedBatchFrom(texts, maxBatchSize, from) ==
    IF from >= Len(PreprocessTexts(texts)) THEN <<>>
    ELSE EmbedBatchInternal(Slice(texts, from, from + maxBatchSize)) \o
         EmbedBatchFrom(texts, maxBatchSize, from + maxBatchSize)

EmbedBatch(texts, maxBatchSize) ==
    IF Len(texts) = 0 THEN <<>>
    ELSE IF Len(PreprocessTexts(texts)) > maxBatchSize
         THEN EmbedBatchFrom(texts, maxBatchSize, 0)
         ELSE EmbedBatchInternal(texts)

RECURSIVE Flat(_)
Flat(arrays) == IF arrays = <<>> THEN <<>> ELSE Head(arrays) \o Flat(Tail(arrays))

EmbUnchanged ==
    UNCHANGED <<platform, now, alive, lockVars, semVars, idxVars, runVars, shared, qry, sync,
                ign, rx, moreVars>>

\* No embedding call is in progress and the result of the last one has been
\* taken.
EmbFree == emb.at = "idle"

\* The caller continues with the vectors or the error of the call.
Embed_Taken ==
    /\ emb.at \in {"returned", "threw"}
    /\ emb' = EmbIdle
    /\ EmbUnchanged

\* embedBatch(texts) up to its first await: the empty batch returns at once,
\* a batch above maxBatchSize enters the loop over the sub-batches, any
\* other batch is one request.
EmbedBatch_Call(texts, maxBatchSize) ==
    /\ EmbFree
    /\ emb' = [EmbIdle EXCEPT
                 !.op = "embedBatch", !.texts = texts, !.max = maxBatchSize,
                 !.at = IF Len(texts) = 0 THEN "returned"
                        ELSE IF Len(PreprocessTexts(texts)) > maxBatchSize THEN "loop"
                        ELSE "single"]
    /\ EmbUnchanged

\* embedBatch: one turn of the loop, the request of the sub-batch answered
\* or failed; after the last sub-batch the results are returned.
EmbedBatch_Chunk(ok) ==
    /\ emb.op = "embedBatch" /\ emb.at = "loop"
    /\ emb' = IF ~ok THEN [emb EXCEPT !.at = "threw", !.results = <<>>]
              ELSE [emb EXCEPT
                      !.results = @ \o EmbedBatchInternal(
                                          Slice(emb.texts, emb.i, emb.i + emb.max)),
                      !.i = @ + emb.max,
                      !.at = IF emb.i + emb.max < Len(PreprocessTexts(emb.texts))
                             THEN "loop" ELSE "returned"]
    /\ EmbUnchanged

\* embedBatch: the single request of a batch within maxBatchSize.
EmbedBatch_Single(ok) ==
    /\ emb.op = "embedBatch" /\ emb.at = "single"
    /\ emb' = IF ~ok THEN [emb EXCEPT !.at = "threw"]
              ELSE [emb EXCEPT !.results = EmbedBatchInternal(emb.texts),
                               !.at = "returned"]
    /\ EmbUnchanged

\* The batches of an embedBatchWithConcurrency call that p-limit has
\* started and that have not settled.
EmbRunning == {b \in 1..Len(emb.slots) : emb.slots[b].st = "running"}

\* embedBatchWithConcurrency up to Promise.all: the preprocessed texts are
\* cut into batches of batchSize, one task per batch, and p-limit starts the
\* first `concurrency` of them.
WithConcurrency_Call(texts, batchSize, concurrency, maxBatchSize) ==
    /\ EmbFree
    /\ LET batches == ChunkArray(PreprocessTexts(texts), batchSize) IN
       emb' = [EmbIdle EXCEPT
                 !.op = "withConcurrency", !.texts = texts, !.max = maxBatchSize,
                 !.size = batchSize, !.limit = concurrency,
                 !.slots = [b \in 1..Len(batches) |->
                              [st |-> IF b <= concurrency THEN "running" ELSE "queued",
                               batch |-> batches[b], result |-> <<>>]],
                 !.at = IF Len(batches) = 0 THEN "returned" ELSE "all"]
    /\ EmbUnchanged

\* embedBatchWithConcurrency: the embedBatch of one running batch settles,
\* in any order among the running ones; p-limit starts the next queued
\* batch. A failure rejects Promise.all; when every batch has its result,
\* the results are flattened in the order of the batches.
WithConcurrency_Settle(b, ok) ==
    /\ emb.op = "withConcurrency" /\ emb.at = "all" /\ b \in EmbRunning
    /\ LET queued == {c \in 1..Len(emb.slots) : emb.slots[c].st = "queued"}
           next == IF queued = {} THEN 0
                   ELSE CHOOSE c \in queued : \A d \in queued : c <= d
           slots == [c \in 1..Len(emb.slots) |->
                       IF c = b
                       THEN [emb.slots[c] EXCEPT
                               !.st = IF ok THEN "done" ELSE "failed",
                               !.result = IF ok THEN EmbedBatch(emb.slots[c].batch, emb.max)
                                          ELSE <<>>]
                       ELSE IF c = next THEN [emb.slots[c] EXCEPT !.st = "running"]
                       ELSE emb.slots[c]]
       IN emb' = IF ~ok THEN [emb EXCEPT !.at = "threw", !.slots = <<>>]
                 ELSE IF \A c \in 1..Len(slots) : slots[c].st = "done"
                 THEN [emb EXCEPT !.at = "returned", !.slots = <<>>,
                                  !.results = Flat([c \in 1..Len(slots) |-> slots[c].result])]
                 ELSE [emb EXCEPT !.slots = slots]
    /\ EmbUnchanged

NextEmbed ==
    \/ \E texts \in TextBatches, maxBatchSize \in 1..MaxBatch :
          EmbedBatch_Call(texts, maxBatchSize)
    \/ \E ok \in BOOLEAN : EmbedBatch_Chunk(ok)
    \/ \E ok \in BOOLEAN : EmbedBatch_Single(ok)
    \/ \E texts \in TextBatches, batchSize \in 1..MaxBatch, concurrency \in 1..MaxBatch,
          maxBatchSize \in 1..MaxBatch :
          WithConcurrency_Call(texts, batchSize, concurrency, maxBatchSize)
    \/ \E b \in 1..MaxTexts, ok \in BOOLEAN : WithConcurrency_Settle(b, ok)
    \/ Embed_Taken

EmbedSpec == Init /\ [][NextEmbed]_vars

\* C21: an embedding call that returns gives exactly one vector per input
\* text, and the i-th vector is the vector of the i-th text (the provider's
\* vector of the preprocessed text), also when the batch was split into
\* sub-batches.
C21_OneVectorPerTextInOrder ==
    emb.at = "returned" =>
        /\ Len(emb.results) = Len(emb.texts)
        /\ \A k \in 1..Len(emb.texts) :
              emb.results[k] = [vector |-> PreprocessText(emb.texts[k])]

\* An embedBatch call of three different texts, split into sub-batches of
\* at most two, has returned.
C21_Witness ==
    /\ emb.op = "embedBatch" /\ emb.at = "returned"
    /\ emb.texts = << <<"a">>, <<>>, <<"b", "b", "b">> >> /\ emb.max = 2 /\ emb.i > 0

\* The same for embedBatchWithConcurrency with more batches than tasks.
WithConcurrencyWitness ==
    /\ emb.op = "withConcurrency" /\ emb.at = "returned"
    /\ emb.texts = << <<"a">>, <<>>, <<"b", "b", "b">> >> /\ emb.size = 1 /\ emb.limit = 2

\* --------------------------------------------------------- ignore patterns
IgnorePatterns == {"node_modules/**", "*.log", "dist/**", "tmp/**", ".env", "build/**"}
PatternLists == UNION {[1..n -> IgnorePatterns] : n \in 0..MaxPatterns}

\* [...new Set(array)]: the first occurrence of every element, in order.
RECURSIVE Unique(_)
Unique(array) ==
    IF array = <<>> THEN <<>>
    ELSE LET front == Unique(SubSeq(array, 1, Len(array) - 1))
             last == array[Len(array)]
         IN IF \E k \in 1..Len(front) : front[k] = last THEN front
            ELSE Append(front, last)

\* addCustomIgnorePatterns: the result for this.ignorePatterns.
AddCustomIgnorePatterns(ignorePatterns, customPatterns) ==
    IF Len(customPatterns) = 0 THEN ignorePatterns
    ELSE Unique(ignorePatterns \o customPatterns)

\* updateIgnorePatterns: the result for this.ignorePatterns.
UpdateIgnorePatterns(ignorePatterns, given) == Unique(DEFAULT_IGNORE_PATTERNS \o given)

IgnUnchanged ==
    UNCHANGED <<platform, now, alive, lockVars, semVars, idxVars, runVars, shared, qry, sync,
                emb, rx, moreVars>>

\* addCustomIgnorePatterns(customPatterns), as index_codebase calls it.
Ctx_AddCustomIgnorePatterns(customPatterns) ==
    /\ ign' = AddCustomIgnorePatterns(ign, customPatterns)
    /\ IgnUnchanged

\* updateIgnorePatterns(ignorePatterns).
Ctx_UpdateIgnorePatterns(given) ==
    /\ ign' = UpdateIgnorePatterns(ign, given)
    /\ IgnUnchanged

\* loadIgnorePatterns: the patterns of the ignore files of the codebase and
\* of the global file are added; when reading throws, the patterns stay.
Ctx_LoadIgnorePatterns(projectPatterns, globalIgnorePatterns, ok) ==
    /\ ign' = IF ok /\ Len(projectPatterns \o globalIgnorePatterns) > 0
              THEN AddCustomIgnorePatterns(ign, projectPatterns \o globalIgnorePatterns)
              ELSE ign
    /\ IgnUnchanged

NextIgnore ==
    \/ \E customPatterns \in PatternLists : Ctx_AddCustomIgnorePatterns(customPatterns)
    \/ \E given \in PatternLists : Ctx_UpdateIgnorePatterns(given)
    \/ \E projectPatterns \in PatternLists, globalIgnorePatterns \in PatternLists,
          ok \in BOOLEAN :
          Ctx_LoadIgnorePatterns(projectPatterns, globalIgnorePatterns, ok)

IgnoreSpec == Init /\ [][NextIgnore]_vars

\* The patterns of a list, and a list without duplicates.
PatternsOf(list) == {list[k] : k \in 1..Len(list)}
NoDuplicates(list) == \A j, k \in 1..Len(list) : list[j] = list[k] => j = k

\* C22: every operation that adds ignore patterns keeps every pattern the
\* set already holds, adds the given ones and leaves no duplicate, in
\* whatever order the operations come.
C22_PatternsAccumulate ==
    [][/\ PatternsOf(ign) \subseteq PatternsOf(ign')
       /\ NoDuplicates(ign')
       /\ \A given \in PatternLists :
             (Ctx_AddCustomIgnorePatterns(given) \/ Ctx_UpdateIgnorePatterns(given))
                => PatternsOf(given) \subseteq PatternsOf(ign')]_vars

\* C22 for addCustomIgnorePatterns and loadIgnorePatterns alone.
AddAndLoadAccumulate ==
    [][(\/ \E customPatterns \in PatternLists : Ctx_AddCustomIgnorePatterns(customPatterns)
        \/ \E projectPatterns \in PatternLists, globalIgnorePatterns \in PatternLists :
              Ctx_LoadIgnorePatterns(projectPatterns, globalIgnorePatterns, TRUE))
          => (PatternsOf(ign) \subseteq PatternsOf(ign') /\ NoDuplicates(ign'))]_vars

\* C23: in every state of the shared state file no codebase path is in
\* both the list indexes and the list activeIndexing.
C23_ListsDisjoint ==
    Range(shared.indexes) \cap Range(shared.activeIndexing) = {}


\* ---------------------------------------------------------- reindexByChange
RxUnchanged ==
    UNCHANGED <<platform, now, alive, lockVars, semVars, idxVars, runVars, shared, qry, sync,
                emb, ign, moreVars>>

\* The members of S in ascending order.
RECURSIVE SortedSeq(_)
SortedSeq(S) ==
    IF S = {} THEN <<>>
    ELSE LET m == CHOOSE x \in S : \A y \in S : x <= y
         IN <<m>> \o SortedSeq(S \ {m})

\* FileSynchronizer.checkForChanges: the files present now against the
\* recorded hashes.
CheckForChanges(fs, hashes) ==
    [added |-> SortedSeq({f \in RelFiles : fs[f] # 0 /\ hashes[f] = 0}),
     removed |-> SortedSeq({f \in RelFiles : fs[f] = 0 /\ hashes[f] # 0}),
     modified |-> SortedSeq({f \in RelFiles : fs[f] # 0 /\ hashes[f] # 0
                                                /\ fs[f] # hashes[f]})]

\* Math.round((n / d) * 100)
RoundPct(n, d) == (200 * n + d) \div (2 * d)

\* updateProgress of reindexByChange: processedChanges++ and the percentage
\* of removed.length + modified.length + added.length.
UpdateProgress(r) ==
    [r EXCEPT !.pc = @ + 1,
              !.pct = RoundPct(r.pc + 1, Len(r.removed) + Len(r.modified) + Len(r.added))]

\* deleteFileChunks(collectionName, f): the ids of the documents with that
\* relativePath are queried and deleted.
DeleteFileChunks(docs, f) == [docs EXCEPT ![f] = {}]

\* Between two calls a file is written with content v or deleted (v = 0);
\* the locals of the call before are gone.
Fs_Write(f, v) ==
    /\ rx.at \in {"idle", "done", "failed"} /\ rx.fs[f] # v
    /\ rx' = [RxIdle EXCEPT !.fs = [rx.fs EXCEPT ![f] = v],
                            !.hashes = rx.hashes, !.docs = rx.docs]
    /\ RxUnchanged

\* reindexByChange up to the await of checkForChanges: percentage 0.
Reindex_Call ==
    /\ rx.at \in {"idle", "done", "failed"}
    /\ rx' = [rx EXCEPT !.at = "check", !.added = <<>>, !.removed = <<>>,
                        !.modified = <<>>, !.todo = <<>>, !.pc = 0, !.pct = 0]
    /\ RxUnchanged

\* checkForChanges returned: without a change 100 is reported and the call
\* returns; otherwise the loops begin.
Reindex_Check ==
    /\ rx.at = "check"
    /\ LET ch == CheckForChanges(rx.fs, rx.hashes)
           r1 == [rx EXCEPT !.hashes = rx.fs, !.added = ch.added,
                            !.removed = ch.removed, !.modified = ch.modified]
       IN rx' = IF Len(ch.added) + Len(ch.removed) + Len(ch.modified) = 0
                THEN [r1 EXCEPT !.at = "done", !.pct = 100]
                ELSE [r1 EXCEPT !.at = "removed", !.todo = ch.removed]
    /\ RxUnchanged

\* One iteration of the loop over removed (ok: the vector store answers the
\* query and the delete); after the last one the loop over modified begins.
Reindex_Removed(ok) ==
    /\ rx.at = "removed"
    /\ rx' = IF rx.todo = <<>> THEN [rx EXCEPT !.at = "modified", !.todo = rx.modified]
             ELSE IF ~ok THEN [rx EXCEPT !.at = "failed", !.todo = <<>>]
             ELSE [UpdateProgress(rx) EXCEPT
                      !.docs = DeleteFileChunks(rx.docs, Head(rx.todo)),
                      !.todo = Tail(rx.todo)]
    /\ RxUnchanged

\* One iteration of the loop over modified; after the last one
\* processFileList is called with the added and the modified files.
Reindex_Modified(ok) ==
    /\ rx.at = "modified"
    /\ rx' = IF rx.todo = <<>>
             THEN [rx EXCEPT !.at = "files", !.todo = rx.added \o rx.modified]
             ELSE IF ~ok THEN [rx EXCEPT !.at = "failed", !.todo = <<>>]
             ELSE [UpdateProgress(rx) EXCEPT
                      !.docs = DeleteFileChunks(rx.docs, Head(rx.todo)),
                      !.todo = Tail(rx.todo)]
    /\ RxUnchanged

\* processFileList, one file: a file that cannot be read or split is passed
\* over; otherwise the file is reported (onFileProcessed) and its chunks are
\* inserted, or dropped by a failure that is only logged, or the failure is
\* re-thrown and the call rejects.
Reindex_File(readable, outcome) ==
    /\ rx.at = "files" /\ rx.todo # <<>>
    /\ LET f == Head(rx.todo) IN
       rx' = IF ~readable THEN [rx EXCEPT !.todo = Tail(rx.todo)]
             ELSE IF outcome = "thrown" THEN [rx EXCEPT !.at = "failed", !.todo = <<>>]
             ELSE [UpdateProgress(rx) EXCEPT
                      !.docs[f] = IF outcome = "inserted" THEN @ \cup {rx.fs[f]} ELSE @,
                      !.todo = Tail(rx.todo)]
    /\ RxUnchanged

\* processFileList returned: flushInsertQueue, percentage 100, return.
Reindex_Complete ==
    /\ rx.at = "files" /\ rx.todo = <<>>
    /\ rx' = [rx EXCEPT !.at = "done", !.pct = 100]
    /\ RxUnchanged

NextReindex ==
    \/ \E f \in RelFiles, v \in {0} \cup Versions : Fs_Write(f, v)
    \/ Reindex_Call
    \/ Reindex_Check
    \/ \E ok \in BOOLEAN : Reindex_Removed(ok)
    \/ \E ok \in BOOLEAN : Reindex_Modified(ok)
    \/ \E readable \in BOOLEAN, outcome \in {"inserted", "dropped", "thrown"} :
          Reindex_File(readable, outcome)
    \/ Reindex_Complete

ReindexSpec == Init /\ [][NextReindex]_vars

\* C30: every percentage reindexByChange reports lies between 0 and 100, and
\* within one call no percentage is below the one reported before it.
C30_ReindexProgress ==
    [][/\ rx'.pct # NoPct => rx'.pct \in 0..100
       /\ rx'.at \notin {"idle", "check"} => rx'.pct >= rx.pct]_vars

\* In a call without modified files the percentages are in range and in
\* order.
ProgressWithoutModified ==
    [][rx'.modified = <<>> =>
          /\ rx'.pct # NoPct => rx'.pct \in 0..100
          /\ rx'.at \notin {"idle", "check"} => rx'.pct >= rx.pct]_vars

\* C29: when reindexByChange has completed, the collection holds no
\* document of a removed path, for a modified path no document built from
\* anything but the new content, and the documents of every added path.
C29_ReindexResult ==
    rx.at = "done" =>
        /\ \A f \in Range(rx.removed) : rx.docs[f] = {}
        /\ \A f \in Range(rx.modified) : rx.docs[f] \subseteq {rx.fs[f]}
        /\ \A f \in Range(rx.added) : rx.fs[f] \in rx.docs[f]

\* The deletions of a call: once the loops over removed and modified are
\* through, no document of a removed or modified path is left, and no
\* document of old content is ever added to a modified path afterwards.
OldChunksDeletedFirst ==
    rx.at \in {"files", "done"} =>
        /\ \A f \in Range(rx.removed) : rx.docs[f] = {}
        /\ \A f \in Range(rx.modified) : rx.docs[f] \subseteq {rx.fs[f]}

\* A file of the call that is read and whose chunks are inserted has the
\* documents of its new content afterwards.
InsertedFileHoldsNewContent ==
    [][(rx.at = "files" /\ rx.todo # <<>> /\ Reindex_File(TRUE, "inserted"))
          => rx.fs[Head(rx.todo)] \in rx'.docs[Head(rx.todo)]]_vars

\* -------------------------------------------------------------- SubtreeSpec
\* Clients index /r (between runs) and ask for /r/s at any time, also while
\* /r is being indexed; clear requests come between runs, the cloud cache
\* expires, and a run may find its only file unreadable.
NextSubtree ==
    \/ \E force \in BOOLEAN : NoRun /\ HandleIndexCodebase("/r", force, TRUE)
    \/ \E force \in BOOLEAN, limitOk \in BOOLEAN :
          (force => NoRun) /\ HandleIndexCodebase("/r/s", force, limitOk)
    \/ \E c \in Paths : NoRun /\ HandleClearIndex(c)
    \/ CloudSyncCacheExpires
    \/ \E r \in RunIds : Run_Init(r, TRUE)
    \/ \E r \in RunIds : Run_Load(r)
    \/ \E r \in RunIds : Run_Prepare(r, TRUE)
    \/ \E r \in RunIds : Run_Scan(r, 1, FALSE, 1)
    \/ \E r \in RunIds, readable \in BOOLEAN : Run_FileSerial(r, readable, 1, TRUE, FALSE)
    \/ \E r \in RunIds : Run_DrainSerial(r, TRUE)
    \/ \E r \in RunIds : Run_Complete(r)
    \/ \E r \in RunIds : Run_Return(r)

SubtreeSpec == Init /\ [][NextSubtree]_vars

\* c lies strictly below a root of roots.
UnderRoot(c, roots) ==
    \E r \in roots : r # c /\ StartsWith(PathChars(c), Append(PathChars(r), Sep))

\* C24: index_codebase without force on a path below a root that is indexed
\* or being indexed is rejected: the registry, the collections, the
\* snapshots and the runs are as before the call.
C24_SubtreeRejected ==
    [][\A c \in Paths, limitOk \in BOOLEAN :
          (/\ UnderRoot(c, IndexedCodebases(info) \cup IndexingCodebases(info))
           /\ HandleIndexCodebase(c, FALSE, limitOk))
          => /\ info' = info
             /\ collection' = collection /\ snapshot' = snapshot
             /\ run' = run /\ pipe' = pipe]_vars


\* The same request judged on the registry as the cloud sync at the start of
\* the call leaves it: with a root above c still registered there, the call
\* only stores that registry.
SubtreeRejectedAfterSync ==
    [][\A c \in Paths, limitOk \in BOOLEAN :
          LET inf1 == SyncIndexedCodebasesFromCloud(info) IN
          (/\ UnderRoot(c, IndexedCodebases(inf1) \cup IndexingCodebases(inf1))
           /\ HandleIndexCodebase(c, FALSE, limitOk))
          => /\ info' = inf1
             /\ collection' = collection /\ snapshot' = snapshot
             /\ run' = run /\ pipe' = pipe]_vars


\* ----------------------------------------------------------------- BusySpec
\* Clients ask for /r and /r/s with and without force at any time, also
\* while the path or the other one is being indexed; the cloud cache
\* expires, and a run may find its only file unreadable.
NextBusy ==
    \/ \E c \in Paths, force \in BOOLEAN : HandleIndexCodebase(c, force, TRUE)
    \/ CloudSyncCacheExpires
    \/ \E r \in RunIds : Run_Init(r, TRUE)
    \/ \E r \in RunIds : Run_Load(r)
    \/ \E r \in RunIds : Run_Prepare(r, TRUE)
    \/ \E r \in RunIds : Run_Scan(r, 1, FALSE, 1)
    \/ \E r \in RunIds, readable \in BOOLEAN : Run_FileSerial(r, readable, 1, TRUE, FALSE)
    \/ \E r \in RunIds : Run_DrainSerial(r, TRUE)
    \/ \E r \in RunIds : Run_Complete(r)
    \/ \E r \in RunIds : Run_Return(r)

BusySpec == Init /\ [][NextBusy]_vars

\* C25: index_codebase on a path whose status is indexing is rejected
\* whatever the force flag: the registry is as before the call and no run
\* is started or changed.
C25_AlreadyIndexingRejected ==
    [][\A c \in Paths, force \in BOOLEAN, limitOk \in BOOLEAN :
          (info[c].status = "indexing" /\ HandleIndexCodebase(c, force, limitOk))
          => /\ info' = info
             /\ run' = run /\ pipe' = pipe]_vars

\* The part about the path itself: its registry entry, its collection and
\* the runs are as before the call.
AlreadyIndexingPathUntouched ==
    [][\A c \in Paths, force \in BOOLEAN, limitOk \in BOOLEAN :
          (info[c].status = "indexing" /\ HandleIndexCodebase(c, force, limitOk))
          => /\ info'[c] = info[c]
             /\ collection' = collection /\ snapshot' = snapshot
             /\ run' = run /\ pipe' = pipe]_vars


\* C26: when the embedding of a group of buffers fails, the run is not
\* ended by it (the codebase does not become indexfailed), and the buffers
\* after the group are still processed.
C26_EmbedFailureDropsBatchOnly ==
    [][\A r \in RunIds, oks \in SUBSET (1..MaxApi) :
          (pipe[r].ret # "call" /\ Queue_Group(r, FALSE, oks))
          => /\ run'[r].st = "running"
             /\ info'[run[r].path].status # "indexfailed"
             /\ (pipe[r].gi + pipe[r].api < Len(pipe[r].bufs)) => pipe'[r].at = "group"]_vars

\* The serial loop and the final drain of the concurrent loop: a failed
\* embedding never ends the run.
EmbedFailureCaughtOutsideFileLoop ==
    [][\A r \in RunIds :
          /\ \A oks \in SUBSET (1..MaxApi) :
                (pipe[r].ret = "drain" /\ Queue_Group(r, FALSE, oks))
                   => run'[r].st = "running" /\ pipe'[r].at = "complete"
          /\ \A readable \in BOOLEAN, k \in 0..MaxChunks, memHigh \in BOOLEAN :
                Run_FileSerial(r, readable, k, FALSE, memHigh)
                   => run'[r].st = "running" /\ pipe'[r].i = pipe[r].i + 1
          /\ Run_DrainSerial(r, FALSE)
                   => run'[r].st = "running" /\ pipe'[r].at = "complete"]_vars


\* C27: a file that cannot be read or split is passed over once: the loop
\* moves to the next file with nothing buffered, counted, reported or
\* persisted for it, the run goes on, and a run that returns without
\* reaching CHUNK_LIMIT has visited every file of its list.
C27_FailedFileSkipped ==
    [][\A r \in RunIds :
          /\ \A k \in 0..MaxChunks, mem \in MemLevels, ok \in BOOLEAN, memHigh \in BOOLEAN :
                (Run_File(r, FALSE, k, mem) \/ Run_FileSerial(r, FALSE, k, ok, memHigh))
                => /\ run'[r] = run[r] /\ info' = info /\ collection' = collection
                   /\ pipe'[r] = [pipe[r] EXCEPT !.i = @ + 1]
          /\ (pipe'[r].at = "return" /\ ~pipe'[r].lim) => pipe'[r].i = pipe'[r].n]_vars

\* A serial run has returned completed: one of its files was passed over,
\* the chunks of another are in the collection.
C27_Witness ==
    \E r \in RunIds :
        /\ pipe[r].at = "return" /\ ~pipe[r].conc /\ pipe[r].result = "completed"
        /\ pipe[r].pf < pipe[r].n /\ pipe[r].pf > 0 /\ pipe[r].persisted > 0


\* C28: when a run returns, no insert and no embedding of the run is still
\* in flight: every queued insert has been awaited and every embedding that
\* was started has settled.
C28_NothingInFlightAtReturn ==
    \A r \in RunIds :
        pipe[r].at = "return" => pipe[r].q = <<>> /\ pipe[r].fly = 0

\* A call of processChunkBuffersConcurrently that returns has taken every
\* buffer it was given through embedding and insertion and has awaited
\* every insert.
QueueReturnsDrained ==
    [][\A r \in RunIds :
          (pipe[r].at = "settle" /\ pipe'[r].at \in {"fileDone", "complete"}
             /\ ~pipe[r].insertFailed)
          => /\ pipe'[r].q = <<>> /\ pipe'[r].fly = 0
             /\ pipe'[r].gi = Len(pipe'[r].bufs)
             /\ pipe'[r].persisted = pipe[r].persisted]_vars


\* ------------------------------------------------------------ ReconcileSpec
\* One server with /r and /r/s indexed one after the other (requests come
\* between runs); its reconcile loop walks both, each reindexByChange
\* returning or throwing.
NextReconcile ==
    \/ \E c \in Paths, force \in BOOLEAN : NoRun /\ HandleIndexCodebase(c, force, TRUE)
    \/ \E r \in RunIds : Run_Init(r, TRUE)
    \/ \E r \in RunIds : Run_Load(r)
    \/ \E r \in RunIds : Run_Prepare(r, TRUE)
    \/ \E r \in RunIds : Run_Scan(r, 1, FALSE, 1)
    \/ \E r \in RunIds : Run_FileSerial(r, TRUE, 1, TRUE, FALSE)
    \/ \E r \in RunIds : Run_DrainSerial(r, TRUE)
    \/ \E r \in RunIds : Run_Complete(r)
    \/ \E r \in RunIds : Run_Return(r)
    \/ \E present \in SUBSET Paths :
          \E order \in Orderings(SyncIndexedCodebases(ServerPid)) :
             HandleSyncIndex(ServerPid, order, present)
    \/ \E outcome \in {"ok", "error", "milvus"} : Sync_Reindex(ServerPid, outcome)

ReconcileSpec == Init /\ [][NextReconcile]_vars

Server_Start ==
    /\ ~sync[ServerPid].started
    /\ sync' = [sync EXCEPT ![ServerPid].started = TRUE]
    /\ syncActive' = TRUE
    /\ UNCHANGED <<platform, now, alive, lockVars, semVars, info, collection, snapshot,
                   cloudSyncCache, runVars, shared, qry, libVars>>

\* The server starts, then /r is indexed (with and without force, the
\* collection limit reached or not) and cleared between runs; a run may
\* fail at its start; the timer of the reconciler ticks.
NextIdle ==
    \/ Server_Start
    \/ \E force \in BOOLEAN, limitOk \in BOOLEAN :
          sync[ServerPid].started /\ NoRun /\ HandleIndexCodebase("/r", force, limitOk)
    \/ sync[ServerPid].started /\ NoRun /\ HandleClearIndex("/r")
    \/ CloudSyncCacheExpires
    \/ \E r \in RunIds, ok \in BOOLEAN : Run_Init(r, ok)
    \/ \E r \in RunIds : Run_Load(r)
    \/ \E r \in RunIds : Run_Prepare(r, TRUE)
    \/ \E r \in RunIds : Run_Scan(r, 1, FALSE, 1)
    \/ \E r \in RunIds, readable \in BOOLEAN : Run_FileSerial(r, readable, 1, TRUE, FALSE)
    \/ \E r \in RunIds : Run_DrainSerial(r, TRUE)
    \/ \E r \in RunIds : Run_Complete(r)
    \/ \E r \in RunIds : Run_Return(r)
    \/ \E present \in SUBSET Paths :
          \E order \in Orderings(SyncIndexedCodebases(ServerPid)) :
             HandleSyncIndex(ServerPid, order, present)
    \/ \E outcome \in {"ok", "error", "milvus"} : Sync_Reindex(ServerPid, outcome)

IdleSpec == Init /\ [][NextIdle]_vars

\* The registry holds no codebase that is indexed or being indexed.
NoCodebases(inf) == IndexedCodebases(inf) \cup IndexingCodebases(inf) = {}

\* C32: whenever the registry has no codebases the reconciler is stopped
\* (its timer is not set and no tick does work), and an index_codebase call
\* that registers a codebase starts it again.
C32_ReconcilerStopsWhenEmpty ==
    [][/\ NoCodebases(info') => (~syncActive' /\ ~sync'[ServerPid].isSyncing)
       /\ (NoCodebases(info) /\ ~NoCodebases(info')) => syncActive']_vars

\* What the code does: clear_index of the last codebase stops the timer, a
\* tick on an empty registry returns at once, and registering starts the
\* timer again.
ClearStopsAndRegisterStarts ==
    [][/\ (HandleClearIndex("/r") /\ NoCodebases(info')) => ~syncActive'
       /\ \A present \in SUBSET Paths :
             (NoCodebases(info) /\ HandleSyncIndex(ServerPid, <<>>, present))
                => (sync'[ServerPid].todo = sync[ServerPid].todo
                    /\ sync'[ServerPid].isSyncing = sync[ServerPid].isSyncing)
       /\ (NoCodebases(info) /\ ~NoCodebases(info')) => syncActive']_vars


\* ------------------------------------------------- force against clear+index
\* What clear_index(c) followed by index_codebase(c, force = false) leaves
\* of c when both are called in the current state: handleClearIndex removes
\* the entry, the collection and the snapshot and empties the cloud cache,
\* so that the index_codebase after it synchronises with the cloud, applies
\* the subtree test and the collection limit, and starts a run.
ClearThenIndex(c, limitOk) ==
    LET infC == RemoveCodebaseCompletely(info, c)
        collC == [collection EXCEPT ![c] = "none"]
        inf1 == [d \in Paths |->
                    IF infC[d].status = "indexed" /\ collC[d] # "docs"
                    THEN NotFound ELSE infC[d]]
        rejected ==
            \/ FindIndexedParentDirectory(c, IndexedCodebases(inf1)) # "none"
            \/ FindIndexedParentDirectory(c, IndexingCodebases(inf1)) # "none"
        started == ~rejected /\ limitOk
    IN [entry |-> IF started THEN SetCodebaseIndexing(inf1, c, 0)[c] ELSE inf1[c],
        coll |-> "none", snap |-> FALSE, started |-> started]

\* What a step has left of c, and whether it has started a run on c.
LeftOf(c) ==
    [entry |-> info'[c], coll |-> collection'[c], snap |-> snapshot'[c],
     started |-> \E r \in RunIds : run[r].st # "running" /\ run'[r].st = "running"
                                    /\ run'[r].path = c]

\* C33: index_codebase with force = true on an indexed path leaves the
\* registry entry, the snapshot and the collection of the path, and the run
\* it starts (which is the run of a call without force, as forceReindex is
\* not handed to indexCodebase), as clear_index followed by index_codebase
\* on that path does.
C33_ForceIsClearThenIndex ==
    [][\A c \in Paths, limitOk \in BOOLEAN :
          (info[c].status = "indexed" /\ HandleIndexCodebase(c, TRUE, limitOk))
             => LeftOf(c) = ClearThenIndex(c, limitOk)]_vars

\* The two agree on a path with no registered directory above it.
ForceIsClearThenIndexAtRoot ==
    [][\A c \in Paths, limitOk \in BOOLEAN :
          (/\ info[c].status = "indexed"
           /\ ~UnderRoot(c, IndexedCodebases(info) \cup IndexingCodebases(info))
           /\ HandleIndexCodebase(c, TRUE, limitOk))
             => LeftOf(c) = ClearThenIndex(c, limitOk)]_vars


\* ------------------------------------------- IndexManager, the cancellation
ImUnchanged ==
    UNCHANGED <<platform, now, alive, lockVars, semVars, idxVars, runVars, qry, sync,
                emb, ign, rx, found, sf, ec>>

\* The catch of IndexManager.indexCodebase: the progress gets the status
\* error, a timer of five seconds will remove it, the error is thrown on.
Im_Failed(P) ==
    /\ im' = [P EXCEPT !.at = "done", !.status = "error"]
    /\ shared' = [shared EXCEPT !.timers = @ \cup {"/r"}]

\* IndexManager.indexCodebase("/r"): the progress object joins
\* activeIndexing, the notification opens, the status becomes indexing and
\* Context.indexCodebase reports 0, 5 and 10 and finds n files, which
\* processFileList handles concurrently (conc) or serially.
Im_IndexCodebase(conc, n) ==
    /\ im.at = "idle" /\ "/r" \notin Range(shared.activeIndexing)
    /\ im' = [ImIdle EXCEPT !.at = "files", !.status = "indexing", !.pct = 10,
                            !.conc = conc, !.n = n]
    /\ shared' = [shared EXCEPT !.activeIndexing = Append(@, "/r")]
    /\ ImUnchanged

\* The user cancels the notification: token.onCancellationRequested marks
\* the progress cancelled.
Im_Cancel ==
    /\ im.at = "files" /\ ~im.token
    /\ im' = [im EXCEPT !.token = TRUE, !.status = "cancelled"]
    /\ UNCHANGED shared
    /\ ImUnchanged

\* processFileList takes the next file: its chunks fill a batch, which is
\* handed to the embedding and the insert.
Im_BatchStart ==
    /\ im.at = "files" /\ im.i < im.n /\ ~im.fly
    /\ im' = [im EXCEPT !.fly = TRUE,
                        !.late = IF im.token THEN @ + 1 ELSE @]
    /\ UNCHANGED shared
    /\ ImUnchanged

\* The batch is embedded and inserted; then onFileProcessed calls the
\* progress callback of IndexManager, which throws when the token is
\* cancelled and stores the percentage otherwise.  The error leaves
\* processFileListConcurrent; in processFileListSerial the catch of the file
\* loop logs it and the loop goes on.
Im_BatchDone ==
    /\ im.at = "files" /\ im.fly
    /\ IF im.token
       THEN IF im.conc
            THEN Im_Failed([im EXCEPT !.fly = FALSE, !.docs = @ + 1])
            ELSE /\ im' = [im EXCEPT !.fly = FALSE, !.docs = @ + 1, !.i = @ + 1]
                 /\ UNCHANGED shared
       ELSE /\ im' = [im EXCEPT !.fly = FALSE, !.docs = @ + 1, !.i = @ + 1,
                                !.pct = ProgressPct(im.i + 1, im.n)]
            /\ UNCHANGED shared
    /\ ImUnchanged

\* All files are processed: flushInsertQueue, then the callback with 100,
\* which throws when the token is cancelled; otherwise the progress is
\* completed, the path joins indexMetadata and a timer of two seconds will
\* remove the progress.
Im_Final ==
    /\ im.at = "files" /\ im.i = im.n /\ ~im.fly
    /\ IF im.token
       THEN Im_Failed(im)
       ELSE /\ im' = [im EXCEPT !.at = "done", !.status = "completed", !.pct = 100]
            /\ shared' = [shared EXCEPT !.indexes = MapSet(@, "/r"),
                                        !.timers = @ \cup {"/r"}]
    /\ ImUnchanged

\* The timer fires: the progress leaves activeIndexing.
Im_Remove ==
    /\ im.at = "done" /\ "/r" \in shared.timers
    /\ im' = ImIdle
    /\ shared' = [shared EXCEPT !.activeIndexing = Without(@, "/r"),
                                !.timers = @ \ {"/r"}]
    /\ ImUnchanged

\* The editor extension indexes /r with one or more files, concurrently or
\* serially, and the user may cancel the notification at any time of the
\* file processing.
NextCancel ==
    \/ \E conc \in BOOLEAN, n \in 1..MaxFiles : Im_IndexCodebase(conc, n)
    \/ Im_Cancel
    \/ Im_BatchStart
    \/ Im_BatchDone
    \/ Im_Final
    \/ Im_Remove

CancelSpec == Init /\ [][NextCancel]_vars

\* C34: when an indexing run is cancelled, the batch in flight is embedded
\* and inserted, no batch is started after the cancellation, and the run
\* ends with the codebase in the state indexing with the last percentage
\* observed.
C34_CancelledRun ==
    [][/\ (im.token /\ im.fly /\ ~im'.fly) => im'.docs = im.docs + 1
       /\ im.token => im'.late = im.late
       /\ (im.token /\ im.at = "files" /\ im'.at = "done")
             => (im'.status = "indexing" /\ im'.pct = im.pct)]_vars

\* What the code keeps of it: the percentage stored before the cancellation
\* stays and a batch in flight is persisted.
CancelKeepsPercent ==
    [][/\ (im.token /\ im'.at # "idle") => im'.pct = im.pct
       /\ (im.token /\ im.fly /\ ~im'.fly) => im'.docs = im.docs + 1]_vars


\* --------------------------------------------------- the score threshold
\* The chunks of the collection searched, and the scores the vector store
\* gives them, in tenths (dense: the similarity; hybrid: the fused score of
\* the reranker).
Chunks == 1..MaxHits
Scores == 0..MaxScore

\* handleSearchCode hands the threshold 0.3 to semanticSearch.
SearchThreshold == 3

\* The k best of the candidates by score (any of them on a tie).
TopK(cands, scoreOf, k) ==
    {S \in SUBSET cands :
        /\ Cardinality(S) = IF k < Cardinality(cands) THEN k ELSE Cardinality(cands)
        /\ \A a \in S, b \in cands \ S : scoreOf[a] >= scoreOf[b]}

\* vectorDatabase.search(collection, vector, {topK, threshold}): the hits
\* with a score below the threshold are dropped.
VectorDatabaseSearch(scoreOf, k, threshold) ==
    TopK({d \in Chunks : scoreOf[d] >= threshold}, scoreOf, k)

\* vectorDatabase.hybridSearch(collection, requests, {rerank, limit}): the
\* limit best by fused score.
VectorDatabaseHybridSearch(scoreOf, k) == TopK(Chunks, scoreOf, k)

\* semanticSearch on a collection that exists, as handleSearchCode calls it:
\* hybrid: hybridSearch with the rerank strategy and the limit, the
\* threshold is not handed on and not applied to the result; dense: search
\* with topK and threshold.  Every hit is returned with the score of the store.
SemanticSearch_Scored(isHybrid, scoreOf, k, threshold) ==
    /\ \E S \in IF isHybrid THEN VectorDatabaseHybridSearch(scoreOf, k)
                ELSE VectorDatabaseSearch(scoreOf, k, threshold) :
          found' = [op |-> "search", hybrid |-> isHybrid, topK |-> k,
                  returned |-> {[doc |-> d, score |-> scoreOf[d]] : d \in S}]
    /\ UNCHANGED <<platform, now, alive, lockVars, semVars, idxVars, runVars, shared, qry,
                   sync, emb, ign, rx, im, sf, ec>>

\* Searches in dense and in hybrid mode over every scoring of the chunks.
NextThreshold ==
    \E isHybrid \in BOOLEAN, scoreOf \in [Chunks -> Scores], k \in 1..MaxHits :
       SemanticSearch_Scored(isHybrid, scoreOf, k, SearchThreshold)

ThresholdSpec == Init /\ [][NextThreshold]_vars

\* C35: with the threshold of search_code in force no returned hit has a
\* score below it, in dense mode and, on the fused score, in hybrid mode.
C35_NoHitBelowThreshold ==
    \A h \in found.returned : h.score >= SearchThreshold

\* In dense mode the hits come from the store's search with the threshold.
DenseHitsReachThreshold ==
    ~found.hybrid => \A h \in found.returned : h.score >= SearchThreshold


\* ------------------------------------------------- the shared state file
SfUnchanged ==
    UNCHANGED <<platform, now, alive, lockVars, semVars, idxVars, runVars, shared, qry,
                sync, emb, ign, rx, im, found, ec>>

\* The process that indexes and clears codebase c: /r belongs to the first
\* process, /r/s to the second.
Owner(c) == IF c = "/r" THEN 1 ELSE 2

\* loadState as process p finds the file: a complete content is parsed; a
\* content cut short makes JSON.parse throw and the empty state is used.
LoadState(p) == IF sf.file.whole THEN sf.file.entries ELSE {}

\* getState() of a reader in process p.
Sf_GetState(p) ==
    /\ sf.pc[p] = "idle"
    /\ sf' = [sf EXCEPT !.seen[p] = IF sf.file.whole THEN "whole" ELSE "partial"]
    /\ SfUnchanged

\* SharedStateManager.addIndexingProgress / completeIndexing (add) or
\* removeIndexingProgress / clearIndex (~add) of process p on its codebase c,
\* up to saveState: getState loads the file, the entry of c is set or
\* filtered out; a removal that changes nothing does not save.
Sf_Update(p, c, add) ==
    LET currentState == LoadState(p)
        state == IF add THEN currentState \cup {c} ELSE currentState \ {c}
    IN
    /\ sf.pc[p] = "idle" /\ Owner(c) = p
    /\ sf' = [sf EXCEPT !.seen[p] = IF sf.file.whole THEN "whole" ELSE "partial",
                        !.buf[p] = state,
                        !.pc[p] = IF add \/ c \in currentState THEN "save" ELSE "idle"]
    /\ SfUnchanged

\* IndexManager.updateSharedState of process p after its codebase c joined
\* (add) or left its maps: the state written is built from the maps of this
\* IndexManager alone, the file is not read.
Sf_UpdateSharedState(p, c, add) ==
    LET maps == IF add THEN sf.maps[p] \cup {c} ELSE sf.maps[p] \ {c} IN
    /\ sf.pc[p] = "idle" /\ Owner(c) = p
    /\ sf' = [sf EXCEPT !.maps[p] = maps, !.buf[p] = maps, !.pc[p] = "save"]
    /\ SfUnchanged

\* fs.writeFileSync(stateFilePath, ..), the open: the file is truncated in
\* place.
Sf_Open(p) ==
    /\ sf.pc[p] = "save"
    /\ sf' = [sf EXCEPT !.file.whole = FALSE, !.pc[p] = "write"]
    /\ SfUnchanged

\* fs.writeFileSync, the data is written and the file closed.
Sf_Write(p) ==
    /\ sf.pc[p] = "write"
    /\ sf' = [sf EXCEPT !.file = [entries |-> sf.buf[p], whole |-> TRUE],
                        !.pc[p] = "idle"]
    /\ SfUnchanged

\* Two processes register and remove their own codebases through
\* SharedStateManager and through IndexManager, and read the state, in any
\* interleaving of their file operations.
NextFile ==
    \/ \E p \in Procs : Sf_GetState(p)
    \/ \E p \in Procs, c \in Paths, add \in BOOLEAN : Sf_Update(p, c, add)
    \/ \E p \in Procs, c \in Paths, add \in BOOLEAN : Sf_UpdateSharedState(p, c, add)
    \/ \E p \in Procs : Sf_Open(p)
    \/ \E p \in Procs : Sf_Write(p)

FileSpec == Init /\ [][NextFile]_vars

\* C36: the writes of the state file are serialized and atomic: no two
\* processes are inside a write at once, and no process ever reads a file
\* that is partially written.
C36_AtomicWrites ==
    /\ \A p, q \in Procs : (sf.pc[p] = "write" /\ sf.pc[q] = "write") => p = q
    /\ \A p \in Procs : sf.seen[p] # "partial"

\* C37: a write of the state file by one process keeps every entry of a
\* codebase of another process that the file held.
C37_ForeignEntriesKept ==
    [][\A p \in Procs : Sf_Write(p) =>
          \A c \in sf.file.entries : Owner(c) # p => c \in sf'.file.entries]_vars

\* What SharedStateManager does keep: the state it saves holds every entry
\* of the file it loaded, but for the codebase it removes.
UpdateKeepsLoadedEntries ==
    [][\A p \in Procs, c \in Paths, add \in BOOLEAN :
          (sf.file.whole /\ Sf_Update(p, c, add))
             => sf.file.entries \ {c} \subseteq sf'.buf[p]]_vars


\* ---------------------------------------------------------------- CloudSpec
\* The clients of SubtreeSpec, whose runs may leave a collection without
\* documents, and searches, each of which starts with the cloud
\* synchronisation.
NextCloud ==
    \/ NextSubtree
    \/ \E p \in Paths, S \in SUBSET Paths : \E order \in Orderings(S) :
          HandleSearchCode(p, order, {})

CloudSpec == Init /\ [][NextCloud]_vars

\* C38: a cloud synchronisation (here the one at the start of a search)
\* leaves as indexed codebases the previous ones minus exactly those that
\* have no collection in the cloud.
C38_SyncRemovesExactlyMissing ==
    [][\A p \in Paths, S \in SUBSET Paths : \A order \in Orderings(S) :
          (~cloudSyncCache /\ HandleSearchCode(p, order, {}))
             => IndexedCodebases(info') =
                   IndexedCodebases(info) \ {c \in Paths : collection[c] = "none"}]_vars

\* The synchronisation adds no codebase and keeps every indexed codebase
\* whose collection holds a document; it removes those whose collection is
\* missing or answers the query with no document.
SyncKeepsCodebasesWithDocuments ==
    [][\A p \in Paths, S \in SUBSET Paths : \A order \in Orderings(S) :
          (~cloudSyncCache /\ HandleSearchCode(p, order, {}))
             => IndexedCodebases(info') =
                   IndexedCodebases(info) \ {c \in Paths : collection[c] # "docs"}]_vars


\* ------------------------------------------------- cleanup and foreign locks
\* C39: the shutdown cleanup of a process (the exit, signal and
\* uncaughtException handlers running releaseAllLocks) leaves every lock
\* file in place whose recorded owner is another process that is alive,
\* such as the process that reclaimed a lock of this process as stale.
C39_CleanupKeepsForeignLock ==
    [][\A p \in Procs : (Shutdown(p) \/ UncaughtException(p)) =>
          \A n \in LockNames :
             (/\ lockFile[n] # NoFile
              /\ lockFile[n].pid # p
              /\ alive[lockFile[n].pid])
                => lockFile'[n] = lockFile[n]]_vars

\* The cleanup touches no lock that this process never acquired.
CleanupKeepsLocksNeverHeld ==
    [][\A p \in Procs : (Shutdown(p) \/ UncaughtException(p)) =>
          \A n \in LockNames \ activeLocks[p] : lockFile'[n] = lockFile[n]]_vars


\* ----------------------------------------------------------- EmbeddingCache
EcUnchanged ==
    UNCHANGED <<platform, now, alive, lockVars, semVars, idxVars, runVars, shared, qry,
                sync, emb, ign, rx, im, found, sf>>

\* The hashes of the contents cached.
Keys == 1..MaxKeys

\* Map.set(key, entry) on the entries in insertion order: a key already
\* present keeps its place and gets the new entry, a new key comes last.
CacheMapSet(entries, key, ts) ==
    IF \E i \in DOMAIN entries : entries[i].key = key
    THEN [i \in DOMAIN entries |->
             IF entries[i].key = key THEN [key |-> key, ts |-> ts] ELSE entries[i]]
    ELSE Append(entries, [key |-> key, ts |-> ts])

\* The entries without the one at index i.
DeleteAt(entries, i) ==
    [j \in 1..(Len(entries) - 1) |-> IF j < i THEN entries[j] ELSE entries[j + 1]]

\* evictLRU at time t: the first entry with the smallest timestamp among
\* those with a timestamp before t is deleted; with no entry older than t
\* nothing is deleted.
EvictLRU(entries, t) ==
    LET older == {i \in DOMAIN entries : entries[i].ts < t} IN
    IF older = {} THEN entries
    ELSE DeleteAt(entries,
                  CHOOSE i \in older :
                     \A j \in older :
                        \/ entries[j].ts > entries[i].ts
                        \/ entries[j].ts = entries[i].ts /\ i <= j)

\* load: the items of the file are set one after the other (none is
\* expired: maxAgeMs is longer than the time modelled).
RECURSIVE LoadItems(_, _)
LoadItems(entries, items) ==
    IF items = <<>> THEN entries
    ELSE LoadItems(CacheMapSet(entries, Head(items).key, Head(items).ts), Tail(items))

\* set(content, vectors) with hashContent(content) = key.
Cache_Set(key) ==
    /\ ec' = [ec EXCEPT !.cache =
                 CacheMapSet(IF Len(ec.cache) >= CacheMaxSize
                             THEN EvictLRU(ec.cache, now) ELSE ec.cache,
                             key, now)]
    /\ EcUnchanged

\* get(content) on an entry of the cache: its timestamp becomes now.
Cache_Get(key) ==
    /\ \E i \in DOMAIN ec.cache : ec.cache[i].key = key
    /\ ec' = [ec EXCEPT !.cache = CacheMapSet(ec.cache, key, now)]
    /\ EcUnchanged

\* persist(): the entries are written to the file.
Cache_Persist ==
    /\ ec' = [ec EXCEPT !.disk = ec.cache]
    /\ EcUnchanged

\* load(): the entries of the file are set in the cache.
Cache_Load ==
    /\ ec' = [ec EXCEPT !.cache = LoadItems(ec.cache, ec.disk)]
    /\ EcUnchanged

\* A cache of CacheMaxSize entries is used for MaxKeys contents, persisted
\* and loaded, while the clock advances.
NextCache ==
    \/ \E key \in Keys : Cache_Set(key)
    \/ \E key \in Keys : Cache_Get(key)
    \/ Cache_Persist
    \/ Cache_Load
    \/ Tick

CacheSpec == Init /\ [][NextCache]_vars

\* C40: after any sequence of set and load operations the embedding cache
\* holds at most maxSize entries.
C40_CacheWithinMaxSize ==
    Len(ec.cache) <= CacheMaxSize

\* A set made later than the last use of every entry keeps the cache within
\* maxSize.
SetAfterOlderEntriesKeepsSize ==
    [][\A key \in Keys :
          (/\ Len(ec.cache) <= CacheMaxSize
           /\ \A i \in DOMAIN ec.cache : ec.cache[i].ts < now
           /\ Cache_Set(key))
             => Len(ec'.cache) <= CacheMaxSize]_vars

====
